---- MODULE Spec2Model ----
(***************************************************************************)
(* State-machine model of the event-arena server: the simulation engine    *)
(* (World, commands, movement, combat, pickups), the transport adapter's   *)
(* command dispatch and the bot manager's respawn timer.                   *)
(*                                                                         *)
(* Representation.                                                         *)
(*  - Time (Date.now()) is the variable now, in ms.  Every handler runs to *)
(*    completion at one value of now (single-threaded event loop).         *)
(*  - Positions are kept in hundredths of a world unit, unit direction     *)
(*    vectors in thousandths, velocities in thousandths of a unit per      *)
(*    second, hp and damage in hundredths of a hit point, so that the      *)
(*    floating point products of the code are exact integers here.         *)
(*  - Players spawn on the horizontal line y = LineY, which crosses no     *)
(*    obstacle rectangle, or at WallSpawn, 50 units above an obstacle;     *)
(*    move directions are along x.  Projectiles may leave the line (a shot *)
(*    fired while the face is still rotating).                             *)
(*  - Math.random() and crypto.randomUUID() are nondeterministic choices:  *)
(*    ids are taken from counters, spawn positions from SpawnXs.           *)
(*  - An absent optional number (undefined) is 0: every timestamp the code *)
(*    stores is now + d > 0, and the code tests them for truthiness.       *)
(***************************************************************************)
EXTENDS Integers, Sequences, FiniteSets, Bags, TLC

\* ------------------------------------------------------------------ bounds
MaxPlayers == 4          \* player ids ever allocated in one behaviour
MaxProjectiles == 7      \* projectile ids ever allocated in one behaviour
MaxTicks == 2            \* clock ticks in one behaviour
MaxCommands == 3         \* commands of clients and bots in one behaviour

\* ------------------------------------------------------- program constants
WorldW == 2000
WorldH == 1200
PLAYER_HP == 100
PLAYER_SPEED == 300
PLAYER_RADIUS == 16
\* Config.player.turnSpeed = 4 PI rad/s, in degrees per second
TURN_SPEED_DEG == 720
BASE_SPEED == 600
ROCKET_SPEED == 300
HIT_RADIUS == 20
ROCKET_HIT_RADIUS == 28
BULLET_DAMAGE == 25
PELLET_DAMAGE == 17
ROCKET_DAMAGE == 40
BULLET_LIFETIME == 4000
PELLET_LIFETIME == 3000
ROCKET_LIFETIME == 4000
BULLET_MAX_BOUNCES == 3
PELLET_MAX_BOUNCES == 2
PELLET_COUNT == 5
\* Config.projectiles.pellet.spread = 0.25 rad, in milliradians
PELLET_SPREAD_MRAD == 250
EXPLOSION_RADIUS == 80
EXPLOSION_DAMAGE == 40
KNOCKBACK_POWER == 2
KNOCKBACK_DURATION == 120
ASSIST_TIME_WINDOW == 5000
HB_INTERVAL_MS == 280
CD_SHOOT == 500
CD_SHOTGUN == 1000
CD_ROCKET == 1200
CD_DASH == 800
DASH_DURATION == 220
RESPAWN_DELAY == 5000
BOT_RESPAWN_DELAY == 5000
BOT_COUNT == 2
SPAWN_INTERVAL_MS == 5000
PLAYER_PICK_RADIUS == 20
MAX_PICKUPS == 12
HEAL_AMOUNT == 35
BUFF_DURATION == 5000
MAX_DT_MS == 100
PLAYER_MIN_DISTANCE == 120
PICKUP_MIN_DISTANCE == 180
BOT_MIN_DISTANCE == 220
PUSH_ALL_DELAY == 200
FLUSH_DELAY == 30
TTL == 3000
MAX == 5
FEED_TTL == 10000
FEED_MAX == 8
DEMO_DELAY == 2000
DEMO_IDLE_MS == 3000
DEMO_COUNTDOWN_MS == 10000
DEMO_DURATION_MS == 300000
CLEANUP_DELAY == 10000
NEXT_DEMO_DELAY == 5000
\* ms the clock can advance between two listeners of one tick
SkewMs == 1
\* ms between two clock ticks: a stalled tick (dt at its clamp) or a long stall
\* that ends where a respawn timer armed in the tick before it does
TickSteps == {MAX_DT_MS, RESPAWN_DELAY - SkewMs}

\* --------------------------------------------------------- input alphabets
Conns == {"c1", "c2", "c3", "c4"}
Skills == {"skill:shoot", "skill:shotgun", "skill:rocket", "skill:dash"}
PickupKinds == {"heal", "haste", "shield"}
\* what a published damage:applied event carries: an explosion's damage
DamageKinds == {[amount |-> EXPLOSION_DAMAGE * 100, weapon |-> "explosion"]}
LineY == 100 * 100
\* x coordinates (world units) Math.random() can yield for a spawn position on
\* the line: all lie inside the margins of every spawn manager
SpawnXs == {100, 220, 340, 460, 580}
PickupXs == {220, 1000}
\* a spawn position 50 units above the obstacle at (600, 200), in hundredths
WallSpawn == [x |-> 70000, y |-> 15000]
\* directions a client sends with cmd:move and cmd:aim (not normalised); the
\* components of a cmd:move direction are in units of 1 / DIR_UNIT
DIR_UNIT == 10000
EPSILON == DIR_UNIT \div 1000
MoveDirs == {[x |-> DIR_UNIT, y |-> 0]}
AimDirs == {[x |-> -2, y |-> 0]}


\* ------------------------------------------------------------- arithmetic
Abs(a) == IF a < 0 THEN -a ELSE a
Min2(a, b) == IF a < b THEN a ELSE b
Max2(a, b) == IF a > b THEN a ELSE b
Sign(a) == IF a > 0 THEN 1 ELSE IF a < 0 THEN -1 ELSE 0
\* Math.ceil(a / b) for b > 0
CeilDiv(a, b) == -((-a) \div b)

\* Math.hypot(a.x - b.x, a.y - b.y) <= r, a and b in hundredths, r in units.
\* The coordinate tests come first so that the squares stay small.
Within(a, b, r) ==
  LET dx == Abs(a.x - b.x)
      dy == Abs(a.y - b.y)
  IN  /\ dx <= r * 100
      /\ dy <= r * 100
      /\ dx * dx + dy * dy <= (r * 100) * (r * 100)

\* Math.hypot(a.x - b.x, a.y - b.y) < r
Nearer(a, b, r) ==
  LET dx == Abs(a.x - b.x)
      dy == Abs(a.y - b.y)
  IN  /\ dx < r * 100
      /\ dy < r * 100
      /\ dx * dx + dy * dy < (r * 100) * (r * 100)

\* cos and sin, in thousandths, of the angles (degrees) the face can take:
\* rotateToward turns by at most turnSpeed * dt = 4 PI * 0.1 rad = 72 degrees.
Angles == {0, 72, 144, 180, 252, 324}
Cos1000(a) ==
  CASE a = 0 -> 1000 [] a = 72 -> 309 [] a = 144 -> -809
    [] a = 180 -> -1000 [] a = 252 -> -309 [] a = 324 -> 809
Sin1000(a) ==
  CASE a = 0 -> 0 [] a = 72 -> 951 [] a = 144 -> 588
    [] a = 180 -> 0 [] a = 252 -> -951 [] a = 324 -> -588
UnitVec(a) == [x |-> Cos1000(a), y |-> Sin1000(a)]

\* integer square root (floor), by bisection on lo..hi
RECURSIVE SqrtIn(_, _, _)
SqrtIn(n, lo, hi) ==
  IF lo >= hi THEN lo
  ELSE LET mid == (lo + hi + 1) \div 2
       IN  IF mid * mid <= n THEN SqrtIn(n, mid, hi) ELSE SqrtIn(n, lo, mid - 1)
ISqrt(n) == SqrtIn(n, 0, 46340)

\* (dx, dy) / (Math.hypot(dx, dy) || 1), in thousandths
Normalize1000(dx, dy) ==
  IF dy = 0 THEN [x |-> Sign(dx) * 1000, y |-> 0]
  ELSE IF dx = 0 THEN [x |-> 0, y |-> Sign(dy) * 1000]
  ELSE LET d == ISqrt(dx * dx + dy * dy)
       IN  [x |-> (dx * 1000) \div d, y |-> (dy * 1000) \div d]

\* ----------------------------------------------------------------- maps
\* A JavaScript Map or Record is a function whose DOMAIN is its key set.
EmptyMap == [k \in {} |-> 0]
Put(f, k, v) == [x \in DOMAIN f \cup {k} |-> IF x = k THEN v ELSE f[x]]
Del(f, k) == [x \in DOMAIN f \ {k} |-> f[x]]
Get(f, k, dflt) == IF k \in DOMAIN f THEN f[k] ELSE dflt

\* ------------------------------------------------------------------ state
VARIABLES
  now,              \* Date.now()
  prev,             \* Clock.prev
  running,          \* Clock.running
  handle,           \* Clock.handle: the interval start() created last (0: null)
  intervals,        \* the intervals setInterval created and nobody cleared
  ticks,            \* number of clock ticks taken (bounded by MaxTicks)
  commands,         \* number of commands handled (bounded by MaxCommands)
  players,          \* World.players: id -> Player
  nextId,           \* next player id crypto.randomUUID() returns
  projectiles,      \* World.projectiles, in insertion order
  nextProjId,       \* next projectile id
  pickups,          \* World.pickups, in insertion order
  nextPickupId,     \* next pickup id
  spawnAccum,       \* pickups system: ms accumulated since the last spawn
  hbAccumMs,        \* movement system: ms accumulated since the last heartbeat
  recentDamage,     \* combat system: target id -> damage history
  lastMoveDir,      \* validation system: id -> last accepted cmd:move dir
  lastBroadcastPos, \* movement system: id -> last broadcast position
  lastFace,         \* movement system: id -> last broadcast face
  lastHBPos,        \* movement system: id -> position at the last heartbeat
  dashing,          \* movement system: ids currently dashing
  connToPlayer,     \* ws-server: connection -> bound player id (0: none)
  deadUntil,        \* ws-server: id -> earliest respawn time
  botIds,           \* BotManager.botIds
  botTimers,        \* BotManager: pending respawn timeouts [id, at]
  botsEnsured,      \* TRUE once the deferred ensureBots() has run
  matches,          \* MatchSystem.matches: id -> Match
  currentMatch,     \* MatchSystem.currentMatch (0: null)
  announced,        \* the match events broadcast so far, as [type, id]
  ran,              \* the listeners the last EventBus.emit called, in order
  propagated,       \* TRUE if that emit ended by throwing to its caller
  emitted,          \* events the last handler emitted on the bus, in order
  sent,             \* events the broadcaster sent to the open clients in it
  closed,           \* ws-server: connections whose close event has fired
  hudSubs,          \* broadcaster: connection -> subscribed widget keys
  hudSent,          \* hud:*:update messages the last handler sent
  dirty,            \* HudSystem.dirty
  flushing,         \* HudSystem.flushing
  timeouts,         \* pending setTimeout callbacks [fn, at, delay]
  marks,            \* widget key -> the events that dirtied it since a flush
  announcements,    \* AnnouncementsWidget.buffer
  feed,             \* FeedWidget.buffer
  book,             \* an EventJournal that events are recorded in
  copy,             \* <<EventJournal.fromJSON(book.toJSON())>>, <<>> before
  isRecording,      \* JournalSystem.isRecording
  currentJournal,   \* JournalSystem.currentJournal: index in journals (0: null)
  currentMatchId,   \* JournalSystem.currentMatchId (0: null)
  eventCounter,     \* JournalSystem.eventCounter
  autoSaveTimer,    \* TRUE while the auto-save interval is set
  subscribed,       \* TRUE once subscribeToEvents() has run
  journals,         \* the EventJournals startNewJournal created, in order
  files,            \* journal index -> the JSON written to its file
  tasks,            \* bag of async functions waiting at an await:
                    \* [fn, j, phase, meta, data]
  index,            \* JournalStorage.indexCache: journal id -> index entry
  failed,           \* the journals a save of which has failed
  appends,          \* the journals the last handler appended its event to
  stopCalled,       \* TRUE once stop() has been called
  stopDone,         \* TRUE once stop() has returned
  openMatch,        \* the match whose match:created was handled last, until
                    \* its match:ended is handled (0: none)
  dmgLog,           \* one record per damage:applied the last handler emitted
  lifeDamage,       \* id -> {[source, at]}: damage taken in the current life
  last              \* the handler that ran last, with its inputs

vars == <<now, prev, running, handle, intervals, ticks, commands, players, nextId, projectiles, nextProjId, pickups,
          nextPickupId, spawnAccum, hbAccumMs, recentDamage, lastMoveDir,
          lastBroadcastPos, lastFace, lastHBPos, dashing, connToPlayer,
          deadUntil, botIds, botTimers, botsEnsured, matches, currentMatch, announced,
          ran, propagated, emitted, sent, closed, hudSubs, hudSent, dirty, flushing, timeouts,
          marks, announcements, feed, book, copy, isRecording, currentJournal,
          currentMatchId, eventCounter, autoSaveTimer, subscribed, journals, files,
          tasks, index, failed, appends, stopCalled, stopDone, openMatch, dmgLog,
          lifeDamage, last>>

\* ------------------------------------------------------------ PlayerStats
\* The timestamps matchStartTime, lastKillTime and lastDeathTime and the never
\* written damageDealt are not read by the server and are left out.
NewStats ==
  [kills |-> 0, deaths |-> 0, assists |-> 0, currentStreak |-> 0, bestStreak |-> 0,
   damageTaken |-> 0, shotsFired |-> 0, shotsHit |-> 0]

StatsAddKill(s) ==
  [s EXCEPT !.kills = @ + 1,
            !.currentStreak = @ + 1,
            !.bestStreak = IF s.currentStreak + 1 > @ THEN s.currentStreak + 1 ELSE @]

StatsAddDeath(s) == [s EXCEPT !.deaths = @ + 1, !.currentStreak = 0]

StatsAddAssist(s) == [s EXCEPT !.assists = @ + 1]

StatsAddShotFired(s) == [s EXCEPT !.shotsFired = @ + 1]

StatsAddShotHit(s) == StatsAddShotFired([s EXCEPT !.shotsHit = @ + 1])

StatsReset == NewStats

\* ----------------------------------------------------------------- Player
Vec(x, y) == [x |-> x, y |-> y]
NoKb == [vx |-> 0, vy |-> 0, until |-> 0]

\* new Player(id, name, pos, vel): face and faceTarget default to (1, 0)
NewPlayer(pos) ==
  [pos |-> pos, vel |-> Vec(0, 0), face |-> 0, faceTarget |-> 0,
   hp |-> PLAYER_HP * 100, cd |-> EmptyMap, kb |-> NoKb,
   iframeUntil |-> 0, dashUntil |-> 0, dashFactor |-> 0,
   hasteUntil |-> 0, hasteFactor |-> 0, shieldUntil |-> 0,
   stats |-> NewStats, isDead |-> FALSE, diedAt |-> 0]

IsAlive(p) == ~p.isDead /\ p.hp > 0

IsDeadPlayer(p) == p.isDead \/ p.hp <= 0

HasIframes(p, t) == p.iframeUntil # 0 /\ p.iframeUntil > t

IsDashing(p, t) == p.dashUntil # 0 /\ p.dashUntil > t

HasHaste(p, t) == p.hasteUntil # 0 /\ p.hasteUntil > t

HasShield(p, t) == p.shieldUntil # 0 /\ p.shieldUntil > t

HasKnockback(p, t) == p.kb.until # 0 /\ p.kb.until > t

Die(p, t) ==
  [p EXCEPT !.isDead = TRUE, !.diedAt = t, !.hp = 0, !.stats = StatsAddDeath(@)]

TakeDamage(p, amount, t) ==
  LET wasAlive == IsAlive(p)
      q == [p EXCEPT !.hp = Max2(0, @ - amount),
                     !.stats.damageTaken = @ + amount]
  IN  IF wasAlive /\ q.hp <= 0 THEN Die(q, t) ELSE q

Heal(p, amount) == [p EXCEPT !.hp = Min2(PLAYER_HP * 100, @ + amount)]

Respawn(p, newPos) ==
  [p EXCEPT !.pos = newPos, !.vel = Vec(0, 0), !.face = 0, !.faceTarget = 0,
            !.hp = PLAYER_HP * 100, !.cd = EmptyMap, !.isDead = FALSE, !.diedAt = 0,
            !.kb = NoKb, !.iframeUntil = 0, !.dashUntil = 0, !.dashFactor = 0]

ApplyHaste(p, durationMs, factor10, t) ==
  [p EXCEPT !.hasteUntil = t + durationMs, !.hasteFactor = factor10]

ApplyShield(p, durationMs, t) == [p EXCEPT !.shieldUntil = t + durationMs]

ApplyKnockback(p, vx, vy, durationMs, t) ==
  [p EXCEPT !.kb = [vx |-> vx, vy |-> vy, until |-> t + durationMs]]

\* the angle (degrees) of a non-zero direction along the x axis
AngleOf(dir) == IF dir.x > 0 THEN 0 ELSE 180

\* setFaceDirection: a zero direction leaves faceTarget alone
SetFaceDirection(p, dir) ==
  IF dir.x # 0 \/ dir.y # 0 THEN [p EXCEPT !.faceTarget = AngleOf(dir)] ELSE p


\* ------------------------------------------------------- the world in a handler
\* A handler works on a record w of the mutable module state; w.out collects the
\* events it emits on the bus and w.log one entry per damage:applied it emits.
Cur ==
  [players |-> players, projectiles |-> projectiles, nextProjId |-> nextProjId,
   pickups |-> pickups, nextPickupId |-> nextPickupId, spawnAccum |-> spawnAccum,
   hbAccumMs |-> hbAccumMs, recentDamage |-> recentDamage,
   lastMoveDir |-> lastMoveDir, lastBroadcastPos |-> lastBroadcastPos,
   lastFace |-> lastFace, lastHBPos |-> lastHBPos, dashing |-> dashing,
   deadUntil |-> deadUntil, botIds |-> botIds, botTimers |-> botTimers,
   life |-> lifeDamage, closed |-> closed, hudSubs |-> hudSubs,
   out |-> <<>>, wire |-> <<>>, hud |-> {}, log |-> <<>>]

\* the state of the HUD dispatcher and of its widgets
widgetVars == <<dirty, flushing, marks, announcements, feed>>
hudVars == <<widgetVars, timeouts>>

\* an EventJournal and the journal restored from its JSON
bookVars == <<book, copy>>

\* the state of the journal system
sysVars == <<isRecording, currentJournal, currentMatchId, eventCounter, autoSaveTimer,
             subscribed, journals, files, tasks, index, failed, appends, stopCalled,
             stopDone, openMatch>>

journalVars == <<bookVars, sysVars>>

\* the state of the match system
matchVars == <<matches, currentMatch, announced>>

CommitWorld(w) ==
  /\ players' = w.players
  /\ projectiles' = w.projectiles
  /\ nextProjId' = w.nextProjId
  /\ pickups' = w.pickups
  /\ nextPickupId' = w.nextPickupId
  /\ spawnAccum' = w.spawnAccum
  /\ hbAccumMs' = w.hbAccumMs
  /\ recentDamage' = w.recentDamage
  /\ lastMoveDir' = w.lastMoveDir
  /\ lastBroadcastPos' = w.lastBroadcastPos
  /\ lastFace' = w.lastFace
  /\ lastHBPos' = w.lastHBPos
  /\ dashing' = w.dashing
  /\ deadUntil' = w.deadUntil
  /\ botIds' = w.botIds
  /\ botTimers' = w.botTimers
  /\ lifeDamage' = w.life
  /\ emitted' = w.out
  /\ sent' = w.wire
  /\ closed' = w.closed
  /\ hudSubs' = w.hudSubs
  /\ hudSent' = w.hud
  /\ UNCHANGED widgetVars
  /\ UNCHANGED journalVars
  /\ dmgLog' = w.log

\* a handler is over in which no listener threw and the clock was left alone
Commit(w) ==
  CommitWorld(w) /\ UNCHANGED <<running, handle, intervals, ran, propagated, timeouts>>

\* the event types attachBroadcaster subscribes to
BroadcastTypes ==
  {"player:join", "player:move", "player:aimed", "player:die", "player:kill",
   "player:leave", "projectile:spawned", "projectile:moved", "projectile:despawned",
   "projectile:bounced", "damage:applied", "explosion:spawned", "knockback:applied",
   "dash:started", "dash:ended", "pickup:spawned", "pickup:collected", "buff:applied",
   "buff:expired", "match:created", "match:started", "match:ended", "score:update",
   "feed:entry", "streak:changed"}

\* eventBus.emit(e) is called: the listeners of e.type are about to run
Publish(w, e) == [w EXCEPT !.out = Append(@, e)]

\* the broadcaster's listener, registered after the listeners of the systems
\* and of the transport adapter: client.send(JSON.stringify(e))
Send(w, e) == IF e.type \in BroadcastTypes THEN [w EXCEPT !.wire = Append(@, e)] ELSE w

\* eventBus.emit of an event whose other listeners emit nothing
Emit(w, e) == Send(Publish(w, e), e)

\* eventBus.emit(player:die): the transport adapter records the earliest
\* respawn time, the bot manager arms the respawn timer of a bot
OnPlayerDie(w, id, t) ==
  LET w1 == [w EXCEPT !.deadUntil = Put(@, id, t + RESPAWN_DELAY)]
  IN  IF id \in w1.botIds /\ id \in DOMAIN w1.players
      THEN [w1 EXCEPT !.botTimers = @ \cup {[id |-> id, at |-> t + BOT_RESPAWN_DELAY]}]
      ELSE w1

EmitPlayerDie(w, id, t) ==
  OnPlayerDie(Emit(w, [type |-> "player:die", playerId |-> id]), id, t)

\* eventBus.emit(player:join): the movement system forgets its broadcast caches
OnPlayerJoin(w, id) ==
  [w EXCEPT !.lastBroadcastPos = Del(@, id),
            !.lastFace = Del(@, id),
            !.lastHBPos = Del(@, id)]

EmitPlayerJoin(w, id) ==
  OnPlayerJoin(Emit(w, [type |-> "player:join", playerId |-> id]), id)

ScoreUpdate(w, id) ==
  [type |-> "score:update", playerId |-> id,
   kills |-> w.players[id].stats.kills,
   deaths |-> w.players[id].stats.deaths,
   assists |-> w.players[id].stats.assists]

\* ------------------------------------------------------------ combat system
\* the damage history kept whole, whatever its age
ValidDamage_NoWindow(hist, t) == hist

\* damageHistory.filter(d => now - d.timestamp <= assistTimeWindow)
ValidDamage(hist, t) ==
  SelectSeq(hist, LAMBDA d : t - d.timestamp <= ASSIST_TIME_WINDOW)

\* the assist sources, in first-occurrence order (a JavaScript Set iterates in
\* insertion order), restricted to players still in the world
RECURSIVE AssistIdsOf(_, _, _, _, _)
AssistIdsOf(hist, i, source, targetId, ps) ==
  IF i > Len(hist) THEN <<>>
  ELSE LET s == hist[i].source
           seen == \E j \in 1..(i - 1) : hist[j].source = s
       IN  IF s # source /\ s # targetId /\ ~seen /\ s \in DOMAIN ps
           THEN <<s>> \o AssistIdsOf(hist, i + 1, source, targetId, ps)
           ELSE AssistIdsOf(hist, i + 1, source, targetId, ps)

RECURSIVE AddAssists(_, _, _)
AddAssists(ps, ids, i) ==
  IF i > Len(ids) THEN ps
  ELSE AddAssists([ps EXCEPT ![ids[i]].stats = StatsAddAssist(@)], ids, i + 1)

RECURSIVE EmitScores(_, _, _)
EmitScores(w, ids, i) ==
  IF i > Len(ids) THEN w
  ELSE EmitScores(Emit(w, ScoreUpdate(w, ids[i])), ids, i + 1)

\* if (killer && e.source) { ... }: kill credit, assists and their events
KillCredit(w, e, t) ==
  LET validDamage == ValidDamage(Get(w.recentDamage, e.targetId, <<>>), t)
      previousStreak == w.players[e.source].stats.currentStreak
      w1 == [w EXCEPT !.players[e.source].stats = StatsAddKill(@)]
      w2 == Emit(w1, [type |-> "streak:changed", playerId |-> e.source,
                      streak |-> w1.players[e.source].stats.currentStreak,
                      previousStreak |-> previousStreak])
      assistIds == AssistIdsOf(validDamage, 1, e.source, e.targetId, w2.players)
      w3 == [w2 EXCEPT !.players = AddAssists(@, assistIds, 1)]
      w4 == Emit(w3, [type |-> "player:kill", killerId |-> e.source,
                      victimId |-> e.targetId, assistIds |-> assistIds])
      w5 == Emit(w4, [type |-> "feed:entry", killer |-> e.source,
                      victim |-> e.targetId, weapon |-> e.weapon,
                      assistIds |-> assistIds])
      w6 == Emit(w5, ScoreUpdate(w5, e.source))
  IN  EmitScores(w6, assistIds, 1)

\* if (killer && e.source): the credit is given when the source is in the world
Credited(w, e, t) ==
  IF e.source # 0 /\ e.source \in DOMAIN w.players THEN KillCredit(w, e, t) ELSE w

\* the death of the target announced before the victim's score
VictimDies_DieFirst(w, e, t) ==
  LET w2 == [w EXCEPT !.players[e.targetId] =
                         [@ EXCEPT !.isDead = TRUE, !.diedAt = t, !.hp = 0],
                      !.recentDamage = Del(@, e.targetId)]
      w3 == EmitPlayerDie(w2, e.targetId, t)
  IN  Emit(w3, ScoreUpdate(w3, e.targetId))

\* the victim's score:update, the end of its damage history, then player:die
VictimDies(w, e, t) ==
  EmitPlayerDie([Emit(w, ScoreUpdate(w, e.targetId))
                   EXCEPT !.players[e.targetId] =
                            [@ EXCEPT !.isDead = TRUE, !.diedAt = t, !.hp = 0],
                          !.recentDamage = Del(@, e.targetId)],
                e.targetId, t)

\* if (t.hp <= 0) { ... }: the death of the target
KillResolution(w, e, t) == VictimDies(Credited(w, e, t), e, t)

\* damage on a dead target let through
DamageIgnored_IframesOnly(p, t) == HasIframes(p, t)

\* damage on a target with i-frames let through
DamageIgnored_DeadOnly(p, t) == IsDeadPlayer(p)

\* if (!t || t.isDead || (t.iframeUntil && t.iframeUntil > now)) return
DamageIgnored(p, t) == IsDeadPlayer(p) \/ HasIframes(p, t)

\* the kill resolution runs when the damage left the target without hp
Resolve(w, e, t) ==
  IF w.players[e.targetId].hp <= 0 THEN KillResolution(w, e, t) ELSE w

\* the damage:applied listener
OnDamageApplied(w, e, t) ==
  IF e.targetId \notin DOMAIN w.players THEN w
  ELSE IF DamageIgnored(w.players[e.targetId], t)
  THEN w
  ELSE
    LET tg == w.players[e.targetId]
        dmg == IF HasShield(tg, t) THEN CeilDiv(e.amount * 5, 1000) * 100 ELSE e.amount
        w1 == [w EXCEPT !.players[e.targetId] = TakeDamage(@, dmg, t)]
        w2 == IF e.source # 0 /\ e.source # e.targetId
              THEN [w1 EXCEPT !.recentDamage =
                      Put(@, e.targetId,
                          ValidDamage(Append(Get(w1.recentDamage, e.targetId, <<>>),
                                             [source |-> e.source, timestamp |-> t,
                                              amount |-> dmg, weapon |-> e.weapon]),
                                      t))]
              ELSE w1
        w3 == IF e.source # 0 /\ e.source \in DOMAIN w2.players
              THEN LET s == w2.players[e.source]
                       n == Normalize1000(tg.pos.x - s.pos.x, tg.pos.y - s.pos.y)
                       power == e.amount * KNOCKBACK_POWER
                   IN  Emit([w2 EXCEPT !.players[e.targetId].kb =
                                [vx |-> (n.x * power) \div 100,
                                 vy |-> (n.y * power) \div 100,
                                 until |-> t + KNOCKBACK_DURATION]],
                            [type |-> "knockback:applied", targetId |-> e.targetId,
                             dir |-> n, power |-> power, source |-> e.source])
              ELSE w2
    IN  Resolve(w3, e, t)

\* eventBus.emit(damage:applied): the listener runs inside the emit.  The log
\* entry keeps what the listener saw and what it left behind; life records, per
\* player, whose damage took effect since the player came to life.
Logged(w, e, t, wh) ==
  LET took == /\ e.targetId \in DOMAIN w.players
              /\ wh.players[e.targetId].stats.damageTaken
                   # w.players[e.targetId].stats.damageTaken
      died == /\ e.targetId \in DOMAIN w.players
              /\ ~w.players[e.targetId].isDead
              /\ wh.players[e.targetId].isDead
      life1 == IF took
               THEN Put(w.life, e.targetId,
                        Get(w.life, e.targetId, {}) \cup {[source |-> e.source, at |-> t]})
               ELSE w.life
      entry == [e |-> e, at |-> t, pre |-> w.players, post |-> wh.players,
                rdPre |-> w.recentDamage, rdPost |-> wh.recentDamage,
                lifePre |-> life1,
                ev |-> SubSeq(wh.out, Len(w.out) + 2, Len(wh.out))]
  IN  [wh EXCEPT !.log = Append(@, entry),
                 !.life = IF died THEN Put(life1, e.targetId, {}) ELSE life1]

EmitDamageApplied(w, e, t) ==
  Logged(w, e, t, Send(OnDamageApplied(Publish(w, e), e, t), e))

DamageEvent(targetId, amount, source, weapon) ==
  [type |-> "damage:applied", targetId |-> targetId, amount |-> amount,
   source |-> source, weapon |-> weapon]

\* --------------------------------------------------------------- Projectile
\* new Projectile({id, owner, pos, vel, kind, hitRadius}) at time t
NewProjectile(id, owner, pos, vel, kind, t) ==
  [id |-> id, owner |-> owner, kind |-> kind, pos |-> pos, vel |-> vel,
   spawnTime |-> t,
   hitRadius |-> IF kind = "rocket" THEN ROCKET_HIT_RADIUS ELSE HIT_RADIUS,
   damage |-> 100 * (CASE kind = "bullet" -> BULLET_DAMAGE
                       [] kind = "pellet" -> PELLET_DAMAGE
                       [] kind = "rocket" -> ROCKET_DAMAGE),
   bounceCount |-> 0]

Lifetime(pr) == IF pr.kind = "pellet" THEN PELLET_LIFETIME
                ELSE IF pr.kind = "bullet" THEN BULLET_LIFETIME ELSE ROCKET_LIFETIME

MaxBounces(pr) == IF pr.kind = "pellet" THEN PELLET_MAX_BOUNCES
                  ELSE IF pr.kind = "bullet" THEN BULLET_MAX_BOUNCES ELSE 0

ShouldExplodeOnCollision(pr) == pr.kind = "rocket"

\* a projectile that never ages out
IsExpired_Never(pr, t) == FALSE

\* Projectile.isExpired(now): now - spawnTime >= lifetime

IsExpired(pr, t) == t - pr.spawnTime >= Lifetime(pr)

IsWithinHitRadius(pr, pos) == Within(pr.pos, pos, pr.hitRadius)

\* World.projectiles.delete(id)
DeleteProjectile(prs, id) == SelectSeq(prs, LAMBDA q : q.id # id)

\* the keys of World.players in iteration order: ids are allocated in increasing
\* order and a Map iterates in insertion order
RECURSIVE IdSeq(_)
IdSeq(S) ==
  IF S = {} THEN <<>>
  ELSE LET m == CHOOSE x \in S : \A y \in S : x <= y
       IN  <<m>> \o IdSeq(S \ {m})

\* the explosion of a rocket at pos: every live player within the radius,
\* the owner included, takes explosion damage and a knockback from the centre
RECURSIVE ExplosionLoop(_, _, _, _, _)
ExplosionLoop(w, pr, ids, i, t) ==
  IF i > Len(ids) THEN w
  ELSE
    LET tp == w.players[ids[i]]
    IN  IF IsDeadPlayer(tp) \/ ~Within(tp.pos, pr.pos, EXPLOSION_RADIUS)
        THEN ExplosionLoop(w, pr, ids, i + 1, t)
        ELSE
          LET w1 == EmitDamageApplied(w, DamageEvent(ids[i], EXPLOSION_DAMAGE * 100,
                                                     pr.owner, "explosion"), t)
              n == IF tp.pos = pr.pos THEN Vec(0, 0)
                   ELSE Normalize1000(tp.pos.x - pr.pos.x, tp.pos.y - pr.pos.y)
              power == EXPLOSION_DAMAGE * KNOCKBACK_POWER
              w2 == [w1 EXCEPT !.players[ids[i]] =
                       ApplyKnockback(@, n.x * power, n.y * power, KNOCKBACK_DURATION, t)]
              w3 == Emit(w2, [type |-> "knockback:applied", targetId |-> ids[i],
                              dir |-> n, power |-> power * 100, source |-> pr.owner])
          IN  ExplosionLoop(w3, pr, ids, i + 1, t)

\* const shooter = World.players.get(pr.owner); if (shooter) shooter.addShotHit()
ShotHit(w, owner) ==
  IF owner \in DOMAIN w.players
  THEN [w EXCEPT !.players[owner].stats = StatsAddShotHit(@)]
  ELSE w

\* what happens when projectile pr is found within its hit radius of player id
ProjectileHit(w, pr, id, t) ==
  LET w1 == Emit([w EXCEPT !.projectiles = DeleteProjectile(@, pr.id)],
                 [type |-> "projectile:despawned", id |-> pr.id])
  IN  IF ShouldExplodeOnCollision(pr)
      THEN ExplosionLoop(Emit(w1, [type |-> "explosion:spawned", pos |-> pr.pos,
                                   radius |-> EXPLOSION_RADIUS,
                                   damage |-> EXPLOSION_DAMAGE * 100]),
                         pr, IdSeq(DOMAIN w1.players), 1, t)
      ELSE ShotHit(EmitDamageApplied(w1, DamageEvent(id, pr.damage, pr.owner,
                                       IF pr.kind = "pellet" THEN "pellet" ELSE "bullet"), t),
                   pr.owner)

\* for (const p of World.players.values()): the loop goes on after a hit
RECURSIVE HitPlayers(_, _, _, _, _)
HitPlayers(w, pr, ids, i, t) ==
  IF i > Len(ids) THEN w
  ELSE
    LET p == w.players[ids[i]]
    IN  IF ids[i] = pr.owner \/ IsDeadPlayer(p) \/ ~IsWithinHitRadius(pr, p.pos)
        THEN HitPlayers(w, pr, ids, i + 1, t)
        ELSE HitPlayers(ProjectileHit(w, pr, ids[i], t), pr, ids, i + 1, t)

\* for (const pr of [...World.projectiles.values()]): prs is the snapshot
RECURSIVE CombatLoop(_, _, _, _)
CombatLoop(w, prs, k, t) ==
  IF k > Len(prs) THEN w
  ELSE CombatLoop(HitPlayers(w, prs[k], IdSeq(DOMAIN w.players), 1, t), prs, k + 1, t)

\* the combat system's tick:post listener
CombatTickPost(w, t) == CombatLoop(w, w.projectiles, 1, t)

\* ---------------------------------------------------------- movement system
\* rotateToward(u, v, maxStep) on angles in degrees: v if within maxStep of u,
\* else u turned by maxStep towards v (counter-clockwise when v is exactly
\* opposite: the sign test is >= 0)
RotateToward(u, v, maxStep) ==
  LET d == (v - u) % 360
      ang == Min2(d, 360 - d)
  IN  IF ang <= maxStep THEN v
      ELSE IF d <= 180 THEN (u + maxStep) % 360 ELSE (u - maxStep) % 360

Clamp(v, lo, hi) == Max2(lo, Min2(hi, v))

\* the displacement, in hundredths, of velocity v (thousandths/s) over dtMs
Displacement(v, dtMs) == (v * dtMs) \div 10000

\* one player's turn of the tick:pre loop.  The substeps of at most 6 units are
\* one clamped step here: the players stay clear of the obstacle rectangles.
MovePlayer(w, id, dtMs, t) ==
  LET p == w.players[id]
      dashActive == IsDashing(p, t)
      v0 == IF dashActive /\ p.dashFactor # 0
            THEN Vec((p.vel.x * p.dashFactor) \div 10, (p.vel.y * p.dashFactor) \div 10)
            ELSE p.vel
      endDash == ~dashActive /\ id \in w.dashing
      w1 == IF endDash
            THEN Emit([w EXCEPT !.dashing = @ \ {id}],
                      [type |-> "dash:ended", playerId |-> id])
            ELSE IF dashActive THEN [w EXCEPT !.dashing = @ \cup {id}] ELSE w
      kbActive == HasKnockback(p, t)
      v == IF kbActive THEN Vec(v0.x + p.kb.vx, v0.y + p.kb.vy) ELSE v0
      kb1 == IF kbActive THEN p.kb ELSE NoKb
      pos1 == Vec(Clamp(p.pos.x + Displacement(v.x, dtMs), 0, WorldW * 100),
                  Clamp(p.pos.y + Displacement(v.y, dtMs), 0, WorldH * 100))
      face1 == RotateToward(p.face, p.faceTarget, (TURN_SPEED_DEG * dtMs) \div 1000)
      w2 == [w1 EXCEPT !.players[id] = [@ EXCEPT !.kb = kb1, !.pos = pos1, !.face = face1]]
      movedNow == Abs(pos1.x - p.pos.x) > 50 \/ Abs(pos1.y - p.pos.y) > 50
      changedSinceLastSend ==
        \/ id \notin DOMAIN w.lastBroadcastPos
        \/ Abs(pos1.x - w.lastBroadcastPos[id].x) > 50
        \/ Abs(pos1.y - w.lastBroadcastPos[id].y) > 50
      faceChanged == id \notin DOMAIN w.lastFace \/ w.lastFace[id] # face1
      w3 == IF movedNow /\ changedSinceLastSend
            THEN Emit([w2 EXCEPT !.lastBroadcastPos = Put(@, id, pos1)],
                      [type |-> "player:move", playerId |-> id, pos |-> pos1])
            ELSE w2
  IN  IF faceChanged
      THEN Emit([w3 EXCEPT !.lastFace = Put(@, id, face1)],
                [type |-> "player:aimed", playerId |-> id, dir |-> face1])
      ELSE w3

RECURSIVE MovePlayers(_, _, _, _, _)
MovePlayers(w, ids, i, dtMs, t) ==
  IF i > Len(ids) THEN w
  ELSE IF IsDeadPlayer(w.players[ids[i]]) THEN MovePlayers(w, ids, i + 1, dtMs, t)
  ELSE MovePlayers(MovePlayer(w, ids[i], dtMs, t), ids, i + 1, dtMs, t)

\* the heartbeat: live players whose position changed since the last heartbeat
RECURSIVE HeartbeatLoop(_, _, _)
HeartbeatLoop(w, ids, i) ==
  IF i > Len(ids) THEN w
  ELSE
    LET id == ids[i]
        p == w.players[id]
    IN  IF ~IsDeadPlayer(p) /\ (\/ id \notin DOMAIN w.lastHBPos
                                 \/ Abs(w.lastHBPos[id].x - p.pos.x) > 1
                                 \/ Abs(w.lastHBPos[id].y - p.pos.y) > 1)
        THEN HeartbeatLoop(Emit([w EXCEPT !.lastHBPos = Put(@, id, p.pos)],
                                [type |-> "player:move", playerId |-> id, pos |-> p.pos]),
                           ids, i + 1)
        ELSE HeartbeatLoop(w, ids, i + 1)

Heartbeat(w, dtMs) ==
  IF w.hbAccumMs + dtMs >= HB_INTERVAL_MS
  THEN HeartbeatLoop([w EXCEPT !.hbAccumMs = 0], IdSeq(DOMAIN w.players), 1)
  ELSE [w EXCEPT !.hbAccumMs = @ + dtMs]

\* World.map.obstacles, in hundredths
Obstacles ==
  <<[x |-> 60000, y |-> 20000, w |-> 20000, h |-> 8000],
    [x |-> 120000, y |-> 60000, w |-> 14000, h |-> 28000],
    [x |-> 90000, y |-> 35000, w |-> 25000, h |-> 6000],
    [x |-> 30000, y |-> 80000, w |-> 18000, h |-> 14000]>>

CheckPointInRect(pos, ob) ==
  pos.x >= ob.x /\ pos.x <= ob.x + ob.w /\ pos.y >= ob.y /\ pos.y <= ob.y + ob.h

\* collideProjectile: the first rectangle the point is in pushes it out by the
\* side of smallest penetration (0.01 outside) and gives the normal
PushOut(pos, ob) ==
  LET leftPen == Abs(pos.x - ob.x)
      rightPen == Abs(ob.x + ob.w - pos.x)
      topPen == Abs(pos.y - ob.y)
      botPen == Abs(ob.y + ob.h - pos.y)
      minPen == Min2(Min2(leftPen, rightPen), Min2(topPen, botPen))
  IN  IF minPen = leftPen
      THEN [hit |-> TRUE, normal |-> Vec(-1, 0), pos |-> Vec(ob.x - 1, pos.y)]
      ELSE IF minPen = rightPen
      THEN [hit |-> TRUE, normal |-> Vec(1, 0), pos |-> Vec(ob.x + ob.w + 1, pos.y)]
      ELSE IF minPen = topPen
      THEN [hit |-> TRUE, normal |-> Vec(0, -1), pos |-> Vec(pos.x, ob.y - 1)]
      ELSE [hit |-> TRUE, normal |-> Vec(0, 1), pos |-> Vec(pos.x, ob.y + ob.h + 1)]

HitObstacles(pos) == {k \in 1..Len(Obstacles) : CheckPointInRect(pos, Obstacles[k])}

FirstOf(hits) == Obstacles[CHOOSE k \in hits : \A j \in hits : k <= j]

CollideProjectile(pos) ==
  IF HitObstacles(pos) = {} THEN [hit |-> FALSE, normal |-> Vec(0, 0), pos |-> pos]
  ELSE PushOut(pos, FirstOf(HitObstacles(pos)))

CanBounce(pr) == pr.kind # "rocket" /\ pr.bounceCount < MaxBounces(pr)

\* Projectile.bounce: reflect, lose speed (0.9 bullet, 0.85 pellet) and damage
\* (0.8 bullet, 0.7 pellet)
Bounce(pr, n) ==
  LET dot == pr.vel.x * n.x + pr.vel.y * n.y
      rx == pr.vel.x - 2 * dot * n.x
      ry == pr.vel.y - 2 * dot * n.y
      keep == IF pr.kind = "bullet" THEN 90 ELSE 85
      drop == IF pr.kind = "bullet" THEN 80 ELSE 70
  IN  [pr EXCEPT !.vel = Vec((rx * keep) \div 100, (ry * keep) \div 100),
                 !.damage = (@ * drop) \div 100,
                 !.bounceCount = @ + 1]

IsOutOfBounds(pr) ==
  pr.pos.x < 0 \/ pr.pos.x > WorldW * 100 \/ pr.pos.y < 0 \/ pr.pos.y > WorldH * 100

ExplosionSpawned(pos) ==
  [type |-> "explosion:spawned", pos |-> pos, radius |-> EXPLOSION_RADIUS,
   damage |-> EXPLOSION_DAMAGE * 100]

RECURSIVE RemoveProjectiles(_, _, _)
RemoveProjectiles(w, rm, i) ==
  IF i > Len(rm) THEN w
  ELSE RemoveProjectiles(
         Emit([w EXCEPT !.projectiles = DeleteProjectile(@, rm[i])],
              [type |-> "projectile:despawned", id |-> rm[i]]),
         rm, i + 1)

\* pr.update(dt): the projectile k moved along its velocity
Advance(pr0, dtMs) ==
  [pr0 EXCEPT !.pos = Vec(@.x + Displacement(pr0.vel.x, dtMs),
                          @.y + Displacement(pr0.vel.y, dtMs))]

\* the projectile loop of tick:pre; rm is projectilesToRemove.  StepProjectile
\* is the body of the loop for projectile k, moved to pr1, with col what
\* collideProjectile finds there
RECURSIVE MoveProjectiles(_, _, _, _, _)
RECURSIVE StepProjectile(_, _, _, _, _, _, _)
StepProjectile(w, k, rm, dtMs, t, pr1, col) ==
  LET pr2 == [pr1 EXCEPT !.pos = col.pos]
      pr3 == IF col.hit /\ CanBounce(pr2) THEN Bounce(pr2, col.normal) ELSE pr2
      Upd(q) == [w EXCEPT !.projectiles[k] = q]
  IN  IF IsExpired(pr1, t)
      THEN MoveProjectiles(
             IF pr1.kind = "rocket" THEN Emit(Upd(pr1), ExplosionSpawned(pr1.pos))
             ELSE Upd(pr1),
             k + 1, Append(rm, pr1.id), dtMs, t)
      ELSE IF col.hit /\ ShouldExplodeOnCollision(pr2)
      THEN MoveProjectiles(Emit(Upd(pr2), ExplosionSpawned(pr2.pos)),
                           k + 1, Append(rm, pr2.id), dtMs, t)
      ELSE IF col.hit /\ ~CanBounce(pr2)
      THEN MoveProjectiles(Upd(pr2), k + 1, Append(rm, pr2.id), dtMs, t)
      ELSE
        LET w1 == IF col.hit
                  THEN Emit(Upd(pr3), [type |-> "projectile:bounced", id |-> pr3.id,
                                       normal |-> col.normal])
                  ELSE Upd(pr3)
        IN  IF IsOutOfBounds(pr3)
            THEN MoveProjectiles(w1, k + 1, Append(rm, pr3.id), dtMs, t)
            ELSE MoveProjectiles(
                   Emit(w1, [type |-> "projectile:moved", id |-> pr3.id, pos |-> pr3.pos]),
                   k + 1, rm, dtMs, t)

Collided(w, k, rm, dtMs, t, pr1) ==
  StepProjectile(w, k, rm, dtMs, t, pr1, CollideProjectile(pr1.pos))

MoveProjectiles(w, k, rm, dtMs, t) ==
  IF k > Len(w.projectiles) THEN RemoveProjectiles(w, rm, 1)
  ELSE Collided(w, k, rm, dtMs, t, Advance(w.projectiles[k], dtMs))

\* the movement system's tick:pre listener
MovementTickPre(w, dtMs, t) ==
  MoveProjectiles(Heartbeat(MovePlayers(w, IdSeq(DOMAIN w.players), 1, dtMs, t), dtMs),
                  1, <<>>, dtMs, t)

\* ----------------------------------------------------------- pickups system
\* the effect of pickup pk on player id, with its events
CollectPickup(w, id, pk, t) ==
  LET w1 == Emit([w EXCEPT !.pickups = SelectSeq(@, LAMBDA q : q.id # pk.id)],
                 [type |-> "pickup:collected", id |-> pk.id, by |-> id])
      Buff(kind, dur) == [type |-> "buff:applied", playerId |-> id, kind |-> kind,
                          duration |-> dur]
  IN  CASE pk.kind = "heal" ->
             Emit([w1 EXCEPT !.players[id] = Heal(@, HEAL_AMOUNT * 100)], Buff("heal", 0))
        [] pk.kind = "haste" ->
             Emit([w1 EXCEPT !.players[id] = ApplyHaste(@, BUFF_DURATION, 16, t)],
                  Buff("haste", BUFF_DURATION))
        [] pk.kind = "shield" ->
             Emit([w1 EXCEPT !.players[id] = ApplyShield(@, BUFF_DURATION, t)],
                  Buff("shield", BUFF_DURATION))

\* for (const pk of [...World.pickups.values()]): pks is the snapshot
RECURSIVE CollectLoop(_, _, _, _, _)
CollectLoop(w, id, pks, j, t) ==
  IF j > Len(pks) THEN w
  ELSE IF Within(w.players[id].pos, pks[j].pos, PLAYER_PICK_RADIUS)
  THEN CollectLoop(CollectPickup(w, id, pks[j], t), id, pks, j + 1, t)
  ELSE CollectLoop(w, id, pks, j + 1, t)

\* for (const p of World.players.values()): every player, dead or alive
RECURSIVE CollectPlayers(_, _, _, _)
CollectPlayers(w, ids, i, t) ==
  IF i > Len(ids) THEN w
  ELSE CollectPlayers(CollectLoop(w, ids[i], w.pickups, 1, t), ids, i + 1, t)

RECURSIVE ExpireBuffs(_, _, _, _)
ExpireBuffs(w, ids, i, t) ==
  IF i > Len(ids) THEN w
  ELSE
    LET id == ids[i]
        p == w.players[id]
        hasteOver == p.hasteUntil # 0 /\ p.hasteUntil <= t
        shieldOver == p.shieldUntil # 0 /\ p.shieldUntil <= t
        w1 == IF hasteOver
              THEN Emit([w EXCEPT !.players[id].hasteUntil = 0,
                                  !.players[id].hasteFactor = 0],
                        [type |-> "buff:expired", playerId |-> id, kind |-> "haste"])
              ELSE w
        w2 == IF shieldOver
              THEN Emit([w1 EXCEPT !.players[id].shieldUntil = 0],
                        [type |-> "buff:expired", playerId |-> id, kind |-> "shield"])
              ELSE w1
    IN  ExpireBuffs(w2, ids, i + 1, t)

\* the spawn timer: pos and kind are what Math.random() yields this time
SpawnPickup(w, dtMs, pos, kind) ==
  IF w.spawnAccum + dtMs < SPAWN_INTERVAL_MS
  THEN [w EXCEPT !.spawnAccum = @ + dtMs]
  ELSE IF Len(w.pickups) >= MAX_PICKUPS
  THEN [w EXCEPT !.spawnAccum = 0]
  ELSE Emit([w EXCEPT !.spawnAccum = 0,
                      !.pickups = Append(@, [id |-> w.nextPickupId, pos |-> pos,
                                             kind |-> kind]),
                      !.nextPickupId = @ + 1],
            [type |-> "pickup:spawned", id |-> w.nextPickupId, pos |-> pos,
             kind |-> kind])

\* the pickups system's tick:post listener
CollectAll(w, t) == CollectPlayers(w, IdSeq(DOMAIN w.players), 1, t)

ExpireAll(w, t) == ExpireBuffs(w, IdSeq(DOMAIN w.players), 1, t)

PickupsTickPost(w, dtMs, t, pos, kind) ==
  ExpireAll(CollectAll(SpawnPickup(w, dtMs, pos, kind), t), t)

\* tick:post listeners in registration order: combat, then pickups
\* the pickups listener reads the clock at tp >= t
TickPost(w, dtMs, t, tp, pos, kind) ==
  PickupsTickPost(CombatTickPost(w, t), dtMs, tp, pos, kind)

\* -------------------------------------------------------- validation system
\* the direction has not changed: both components within EPSILON
SameDir_Never(lastDir, dir) == FALSE
SameDir(lastDir, dir) ==
  Abs(lastDir.x - dir.x) < EPSILON /\ Abs(lastDir.y - dir.y) < EPSILON

\* the cmd:move listener
OnCmdMove(w, id, dir, t) ==
  IF id \notin DOMAIN w.players THEN w
  ELSE IF IsDeadPlayer(w.players[id]) THEN w
  ELSE IF id \in DOMAIN w.lastMoveDir /\ SameDir(w.lastMoveDir[id], dir) THEN w
  ELSE
    LET p == w.players[id]
        speed == IF p.hasteUntil # 0 /\ p.hasteUntil > t /\ p.hasteFactor # 0
                 THEN (PLAYER_SPEED * p.hasteFactor) \div 10 ELSE PLAYER_SPEED
        n == Normalize1000(dir.x, dir.y)
    IN  [w EXCEPT !.lastMoveDir = Put(@, id, dir),
                  !.players[id].vel = Vec(n.x * speed, n.y * speed)]

\* the cmd:aim listener
OnCmdAim(w, id, dir, t) ==
  IF id \notin DOMAIN w.players THEN w
  ELSE IF IsDeadPlayer(w.players[id]) THEN w
  ELSE
    LET w1 == [w EXCEPT !.players[id] = SetFaceDirection(@, dir)]
    IN  Emit(w1, [type |-> "player:aimed", playerId |-> id,
                  dir |-> w1.players[id].faceTarget])

\* cos and sin, in thousandths, of a pellet's angle offset in milliradians
CosMrad(a) == CASE a = 0 -> 1000 [] Abs(a) = 125 -> 992 [] Abs(a) = 250 -> 969
SinMrad(a) == Sign(a) * (CASE a = 0 -> 0 [] Abs(a) = 125 -> 125 [] Abs(a) = 250 -> 247)

\* World.projectiles.set + projectile:spawned + addShotFired for one projectile
SpawnProjectile(w, id, dir, speed, kind, t) ==
  LET pid == w.nextProjId
      pos == w.players[id].pos
      vel == Vec(dir.x * speed, dir.y * speed)
  IN  Emit([w EXCEPT !.projectiles = Append(@, NewProjectile(pid, id, pos, vel, kind, t)),
                     !.nextProjId = @ + 1,
                     !.players[id].stats = StatsAddShotFired(@)],
           [type |-> "projectile:spawned", id |-> pid, owner |-> id, pos |-> pos,
            vel |-> vel, kind |-> kind])

\* the pellets i .. PELLET_COUNT - 1 of a shotgun blast
RECURSIVE SpawnPellets(_, _, _, _)
SpawnPellets(w, id, i, t) ==
  IF i >= PELLET_COUNT THEN w
  ELSE
    LET ang == ((2 * i - (PELLET_COUNT - 1)) * PELLET_SPREAD_MRAD) \div (PELLET_COUNT - 1)
        f == UnitVec(w.players[id].face)
        dir == Vec((CosMrad(ang) * f.x - SinMrad(ang) * f.y) \div 1000,
                   (SinMrad(ang) * f.x + CosMrad(ang) * f.y) \div 1000)
    IN  SpawnPellets(SpawnProjectile(w, id, dir, BASE_SPEED, "pellet", t), id, i + 1, t)

Cooldown(skill) ==
  CASE skill = "skill:shoot" -> CD_SHOOT
    [] skill = "skill:shotgun" -> CD_SHOTGUN
    [] skill = "skill:rocket" -> CD_ROCKET
    [] skill = "skill:dash" -> CD_DASH

\* the cooldown never checked
OnCooldown_Never(p, skill, t) == FALSE

\* (p.cd[cdKey] ?? 0) > now
OnCooldown(p, skill, t) == Get(p.cd, skill, 0) > t

\* the cmd:cast listener
OnCmdCast(w, id, skill, t) ==
  IF id \notin DOMAIN w.players THEN w
  ELSE IF IsDeadPlayer(w.players[id]) THEN w
  ELSE IF OnCooldown(w.players[id], skill, t) THEN w
  ELSE
    LET w1 == [w EXCEPT !.players[id].cd = Put(@, skill, t + Cooldown(skill))]
        f == UnitVec(w.players[id].face)
    IN  CASE skill = "skill:shoot" -> SpawnProjectile(w1, id, f, BASE_SPEED, "bullet", t)
          [] skill = "skill:shotgun" -> SpawnPellets(w1, id, 0, t)
          [] skill = "skill:rocket" -> SpawnProjectile(w1, id, f, ROCKET_SPEED, "rocket", t)
          [] skill = "skill:dash" ->
               Emit([w1 EXCEPT !.players[id].iframeUntil = t + DASH_DURATION,
                               !.players[id].dashUntil = t + DASH_DURATION,
                               !.players[id].dashFactor = 25],
                    [type |-> "dash:started", playerId |-> id,
                     duration |-> DASH_DURATION])

\* the cmd:leave listeners of the validation system, the movement system and
\* the bot manager
OnCmdLeave(w, id, t) ==
  LET w1 == EmitPlayerDie([w EXCEPT !.players = Del(@, id)], id, t)
  IN  [w1 EXCEPT !.lastMoveDir = Del(@, id),
                 !.lastBroadcastPos = Del(@, id),
                 !.lastFace = Del(@, id),
                 !.lastHBPos = Del(@, id),
                 !.dashing = @ \ {id},
                 !.botIds = @ \ {id}]

\* eventBus.emit of a command event: the listener runs inside the emit
EmitCmdMove(w, id, dir, t) ==
  OnCmdMove(Emit(w, [type |-> "cmd:move", playerId |-> id, dir |-> dir]), id, dir, t)

EmitCmdAim(w, id, dir, t) ==
  OnCmdAim(Emit(w, [type |-> "cmd:aim", playerId |-> id, dir |-> dir]), id, dir, t)

EmitCmdCast(w, id, skill, t) ==
  OnCmdCast(Emit(w, [type |-> "cmd:cast", playerId |-> id, skill |-> skill]), id, skill, t)

EmitCmdLeave(w, id, t) ==
  OnCmdLeave(Emit(w, [type |-> "cmd:leave", playerId |-> id]), id, t)

\* ------------------------------------------------------------ initial state
\* The server has been running without players: clock.start() has created the
\* interval and the clock has ticked, so the pickup timer is part of the way to
\* its next spawn.
StartTime == 2 * RESPAWN_DELAY
\* -------------------------------------------------------------- EventJournal
\* the elements of a sequence
Range(sq) == {sq[i] : i \in 1..Len(sq)}

\* Set.add(id) on a Set kept in insertion order; 0: no id
AddPlayer(set, id) == IF id = 0 \/ id \in Range(set) THEN set ELSE Append(set, id)

RECURSIVE AddPlayers(_, _)
AddPlayers(set, ids) ==
  IF ids = <<>> THEN set ELSE AddPlayers(AddPlayer(set, Head(ids)), Tail(ids))

\* Map.set(type, (Map.get(type) || 0) + 1)
Count(counts, type) == Put(counts, type, Get(counts, type, 0) + 1)

\* the metadata of an entry that names no player
NoMetadata == [playerId |-> 0, victimId |-> 0, assistIds |-> <<>>, source |-> 0]

\* extractMetadata(event): the players an entry is indexed by (the matchId it
\* copies from the journal's options is left out)
ExtractMetadata(e) ==
  IF e.type \in {"player:join", "player:move", "player:aimed", "player:die",
                 "player:leave", "buff:applied", "buff:expired", "dash:started",
                 "dash:ended", "cmd:move", "cmd:cast", "cmd:leave", "cmd:aim",
                 "cmd:respawn", "score:update"}
  THEN [NoMetadata EXCEPT !.playerId = e.playerId]
  ELSE IF e.type = "player:kill"
  THEN [NoMetadata EXCEPT !.playerId = e.killerId, !.victimId = e.victimId,
                          !.assistIds = e.assistIds]
  ELSE IF e.type \in {"damage:applied", "knockback:applied"}
  THEN [NoMetadata EXCEPT !.playerId = e.targetId, !.source = e.source]
  ELSE IF e.type = "projectile:spawned"
  THEN [NoMetadata EXCEPT !.playerId = e.ownerId]
  ELSE IF e.type = "pickup:collected"
  THEN [NoMetadata EXCEPT !.playerId = e.by]
  ELSE NoMetadata

\* new EventJournal(journalId, {matchId}) at time t; matchId 0: none
NewEventJournal(journalId, matchId, t) ==
  [entries |-> <<>>, currentId |-> 0, startTime |-> t, playerSet |-> <<>>,
   eventCounts |-> EmptyMap,
   metadata |-> [id |-> journalId, createdAt |-> t, matchId |-> matchId,
                 duration |-> 0, eventCount |-> 0, playerIds |-> <<>>,
                 eventTypeCounts |-> EmptyMap]]

\* the players updateStats adds to the player set for an entry
TrackedPlayers(set, md) ==
  AddPlayers(AddPlayer(AddPlayer(set, md.playerId), md.victimId), md.assistIds)

\* the players fromJSON adds to the player set for an entry
RestoredPlayers(set, md) == AddPlayer(set, md.playerId)

\* journal.record(event) at time t
Record(j, e, t) ==
  [j EXCEPT
     !.entries = Append(@, [id |-> j.currentId, timestamp |-> t,
                            gameTime |-> t - j.startTime, eventType |-> e.type,
                            event |-> e, metadata |-> ExtractMetadata(e)]),
     !.currentId = @ + 1,
     !.eventCounts = Count(@, e.type),
     !.playerSet = TrackedPlayers(@, ExtractMetadata(e)),
     !.metadata = [@ EXCEPT
                     !.eventCount = Len(j.entries) + 1,
                     !.duration = t - j.startTime,
                     !.playerIds = TrackedPlayers(j.playerSet, ExtractMetadata(e)),
                     !.eventTypeCounts = Count(j.eventCounts, e.type)]]

\* journal.toJSON()
ToJSON(j) == [metadata |-> j.metadata, entries |-> j.entries]

\* Math.max(...entries.map(e => e.id)) + 1, or 0 without entries
NextEntryId(entries) ==
  IF entries = <<>> THEN 0
  ELSE 1 + CHOOSE m \in {entries[i].id : i \in 1..Len(entries)} :
             \A i \in 1..Len(entries) : entries[i].id <= m

RECURSIVE RebuildPlayers(_, _)
RebuildPlayers(set, entries) ==
  IF entries = <<>> THEN set
  ELSE RebuildPlayers(RestoredPlayers(set, Head(entries).metadata), Tail(entries))

RECURSIVE RebuildCounts(_, _)
RebuildCounts(counts, entries) ==
  IF entries = <<>> THEN counts
  ELSE RebuildCounts(Count(counts, Head(entries).eventType), Tail(entries))

\* EventJournal.fromJSON(data)
FromJSON(data) ==
  [entries |-> data.entries,
   currentId |-> NextEntryId(data.entries),
   startTime |-> data.metadata.createdAt,
   playerSet |-> RebuildPlayers(<<>>, data.entries),
   eventCounts |-> RebuildCounts(EmptyMap, data.entries),
   metadata |-> data.metadata]

InitSpawnAccum == SPAWN_INTERVAL_MS - MAX_DT_MS

Init ==
  /\ now = StartTime
  /\ prev = StartTime
  /\ running = TRUE
  /\ handle = 1
  /\ intervals = {1}
  /\ ticks = 0
  /\ commands = 0
  /\ players = EmptyMap
  /\ nextId = 1
  /\ projectiles = <<>>
  /\ nextProjId = 1
  /\ pickups = <<>>
  /\ nextPickupId = 1
  /\ spawnAccum = InitSpawnAccum
  /\ hbAccumMs = 0
  /\ recentDamage = EmptyMap
  /\ lastMoveDir = EmptyMap
  /\ lastBroadcastPos = EmptyMap
  /\ lastFace = EmptyMap
  /\ lastHBPos = EmptyMap
  /\ dashing = {}
  /\ connToPlayer = [c \in Conns |-> 0]
  /\ deadUntil = EmptyMap
  /\ botIds = {}
  /\ botTimers = {}
  /\ botsEnsured = FALSE
  /\ matches = EmptyMap
  /\ currentMatch = 0
  /\ announced = {}
  /\ ran = <<>>
  /\ propagated = FALSE
  /\ emitted = <<>>
  /\ sent = <<>>
  /\ closed = {}
  /\ hudSubs = EmptyMap
  /\ hudSent = {}
  /\ dirty = {}
  /\ flushing = FALSE
  /\ timeouts = {[fn |-> "pushAll", id |-> 0, at |-> StartTime, delay |-> PUSH_ALL_DELAY],
                 [fn |-> "createDemoMatch", id |-> 0, at |-> StartTime, delay |-> DEMO_DELAY]}
  /\ marks = EmptyMap
  /\ announcements = <<>>
  /\ feed = <<>>
  /\ book = NewEventJournal(1, 0, StartTime)
  /\ copy = <<>>
  /\ isRecording = FALSE
  /\ currentJournal = 0
  /\ currentMatchId = 0
  /\ eventCounter = 0
  /\ autoSaveTimer = FALSE
  /\ subscribed = FALSE
  /\ journals = <<>>
  /\ files = EmptyMap
  /\ tasks = SetToBag({[fn |-> "init", j |-> 0, phase |-> "write",
                         meta |-> NewEventJournal(0, 0, 0).metadata,
                         data |-> ToJSON(NewEventJournal(0, 0, 0))]})
  /\ index = EmptyMap
  /\ failed = {}
  /\ appends = <<>>
  /\ stopCalled = FALSE
  /\ stopDone = FALSE
  /\ openMatch = 0
  /\ dmgLog = <<>>
  /\ lifeDamage = EmptyMap
  /\ last = [op |-> "init"]

SpawnPos(x) == Vec(x * 100, LineY)

\* findSafeSpawnPosition(): a sample is taken if no player, dead or alive, is
\* nearer than minDistance.  With no player in the world the nearest distance
\* counts as 0, every sample is refused and the fallback returns its first
\* sample.  With players, the fallback (64 samples refused in a row) is left out.
SafeSpawn(ps, pos, minDistance) ==
  \/ DOMAIN ps = {}
  \/ \A id \in DOMAIN ps : ~Nearer(ps[id].pos, pos, minDistance)

\* the timed buffs among the events out
TimedBuffs(out) ==
  {i \in 1..Len(out) : out[i].type = "buff:applied" /\ out[i].duration > 0}

\* a pickup is due in this tick:post and there is room for it
Spawning(w, dtMs) ==
  w.spawnAccum + dtMs >= SPAWN_INTERVAL_MS /\ Len(w.pickups) < MAX_PICKUPS

\* where the pickup due in this tick may appear
PickupPlaces(w, dtMs) ==
  IF Spawning(w, dtMs)
  THEN {x \in PickupXs : SafeSpawn(w.players, SpawnPos(x), PICKUP_MIN_DISTANCE)}
  ELSE {0}

\* the frame is over: the world is as the listeners left it
FrameEnd(w, skew) == (skew = 0 \/ TimedBuffs(w.out) # {}) /\ Commit(w)

\* eventBus.emit(tick:post) on the world w the tick:pre listeners left
FramePost(w, t, dtMs, skew, kind) ==
  /\ Spawning(w, dtMs) \/ kind = "heal"
  /\ \E x \in PickupPlaces(w, dtMs) :
       FrameEnd(TickPost(Emit(w, [type |-> "tick:post", dt |-> dtMs]),
                         dtMs, t, t + skew, SpawnPos(x), kind),
                skew)

\* Clock.frame at time t: tick:pre, then tick:post
Frame(t, dtMs, skew, kind) ==
  FramePost(MovementTickPre(Emit(Cur, [type |-> "tick:pre", dt |-> dtMs]), dtMs, t),
            t, dtMs, skew, kind)

\* ------------------------------------------------------------------ actions
\* Time passes by d ms and the clock ticks: dt = min((now - prev) / 1000, 0.1),
\* prev = now, tick:pre, tick:post.  The handlers between two ticks run at the
\* time the earlier tick ended.  Within the tick, the pickups listener reads
\* the clock skew ms after the listeners before it; a later reading is
\* considered only where it is stored, in the end time of a buff.  A pickup
\* due in this tick is of the given kind.
Tick(d, skew, kind) ==
  /\ intervals # {}
  /\ Frame(now + d, Min2(now + d - prev, MAX_DT_MS), skew, kind)
  /\ now' = now + d + skew
  /\ prev' = now + d
  /\ ticks' = ticks + 1
  /\ last' = [op |-> "tick"]
  /\ UNCHANGED <<commands, nextId, connToPlayer, botsEnsured, matchVars>>

\* ws message cmd:join on connection c; randomSpawn() yields the position x
WsJoinPos(c, pos) ==
  /\ c \notin closed
  /\ nextId <= MaxPlayers
  /\ SafeSpawn(players, pos, PLAYER_MIN_DISTANCE)
  /\ LET w1 == [Cur EXCEPT !.players = Put(@, nextId, NewPlayer(pos)),
                           !.deadUntil = Del(@, nextId),
                           !.life = Put(@, nextId, {})]
     IN  Commit(EmitPlayerJoin(w1, nextId))
  /\ connToPlayer' = [connToPlayer EXCEPT ![c] = nextId]
  /\ nextId' = nextId + 1
  /\ last' = [op |-> "cmd:join", conn |-> c, id |-> nextId]
  /\ UNCHANGED <<commands, now, prev, ticks, botsEnsured, matchVars>>

\* cmd:join with a spawn position on the line y = LineY
WsJoin(c, x) == WsJoinPos(c, SpawnPos(x))

\* the message is a cmd:move and id is the player it is handled for
HandleMove(c, id, dir) ==
  /\ commands' = commands + 1
  /\ id # 0
  /\ Commit(EmitCmdMove(Cur, id, dir, now))
  /\ last' = [op |-> "cmd:move", conn |-> c, id |-> id, dir |-> dir]
  /\ UNCHANGED <<now, prev, ticks, nextId, connToPlayer, botsEnsured, matchVars>>

\* ws message cmd:move on connection c
WsMove(c, dir) == HandleMove(c, connToPlayer[c], dir)

\* the projectiles a cast of the skill adds to the world
Shots(skill) ==
  CASE skill = "skill:shotgun" -> PELLET_COUNT
    [] skill = "skill:dash" -> 0
    [] OTHER -> 1

\* the message is a cmd:cast and id is the player it is handled for
HandleCast(c, id, skill) ==
  /\ commands' = commands + 1
  /\ id # 0
  /\ nextProjId + Shots(skill) - 1 <= MaxProjectiles
  /\ Commit(EmitCmdCast(Cur, id, skill, now))
  /\ last' = [op |-> "cmd:cast", conn |-> c, id |-> id, skill |-> skill]
  /\ UNCHANGED <<now, prev, ticks, nextId, connToPlayer, botsEnsured, matchVars>>

\* ws message cmd:cast on connection c
WsCast(c, skill) == HandleCast(c, connToPlayer[c], skill)

\* the message is a cmd:aim and id is the player it is handled for: the
\* adapter sets the face target itself and then emits cmd:aim with the player's
\* face target
HandleAim(c, id, dir) ==
  /\ commands' = commands + 1
  /\ id # 0
  /\ IF id \notin DOMAIN players THEN Commit(Cur)
     ELSE LET w1 == [Cur EXCEPT !.players[id] = SetFaceDirection(@, dir)]
          IN  Commit(EmitCmdAim(w1, id, UnitVec(w1.players[id].faceTarget), now))
  /\ last' = [op |-> "cmd:aim", conn |-> c, id |-> id]
  /\ UNCHANGED <<now, prev, ticks, nextId, connToPlayer, botsEnsured, matchVars>>

\* ws message cmd:aim on connection c
WsAim(c, dir) == HandleAim(c, connToPlayer[c], dir)

\* a respawn asked before the timer has run out let through
RespawnRefused_NoTimer(id) == id \in DOMAIN players /\ ~players[id].isDead

\* if (existingPlayer && !existingPlayer.isDead) return; if (now < until) return
RespawnRefused(id) ==
  \/ id \in DOMAIN players /\ ~players[id].isDead
  \/ now < Get(deadUntil, id, 0)

\* the message is a cmd:respawn and id is the player it is handled for;
\* randomSpawn() yields the position x
HandleRespawn(c, id, x) ==
  /\ commands' = commands + 1
  /\ id # 0
  /\ LET w0 == Emit(Cur, [type |-> "cmd:respawn", playerId |-> id])
         exists == id \in DOMAIN players
     IN  IF RespawnRefused(id) THEN Commit(w0)
         ELSE LET w1 == [w0 EXCEPT
                             !.players = IF exists
                                         THEN [@ EXCEPT ![id] = Respawn(@, SpawnPos(x))]
                                         ELSE Put(@, id, NewPlayer(SpawnPos(x))),
                             !.deadUntil = Del(@, id),
                             !.life = Put(@, id, {})]
              IN  /\ SafeSpawn(players, SpawnPos(x), PLAYER_MIN_DISTANCE)
                  /\ Commit(EmitPlayerJoin(w1, id))
  /\ last' = [op |-> "cmd:respawn", conn |-> c, id |-> id]
  /\ UNCHANGED <<now, prev, ticks, nextId, connToPlayer, botsEnsured, matchVars>>

\* ws message cmd:respawn on connection c
WsRespawn(c, x) == HandleRespawn(c, connToPlayer[c], x)

\* the id a message is handled for, had the adapter trusted the playerId field
Sender_Claimed(c, msg) == msg.playerId

\* const id = connToPlayer.get(ws)
Sender(c, msg) == connToPlayer[c]

\* if (!id) return: a command on a connection that has not joined
WsDropped(c) ==
  /\ commands' = commands + 1
  /\ Commit(Cur)
  /\ last' = [op |-> "dropped", conn |-> c]
  /\ UNCHANGED <<now, prev, ticks, nextId, connToPlayer, botsEnsured, matchVars>>

\* the messages a client can send: the playerId field is the client's to fill
\* (none, or the id of one of the first two players)
ClaimedIds == {0, 1, 2}
Messages ==
  [type : {"cmd:move"}, playerId : ClaimedIds, dir : MoveDirs]
    \cup [type : {"cmd:aim"}, playerId : ClaimedIds, dir : AimDirs]
    \cup [type : {"cmd:cast"}, playerId : ClaimedIds, skill : Skills]
    \cup [type : {"cmd:respawn"}, playerId : ClaimedIds]

\* ws message msg on connection c
WsMessage(c, msg) ==
  IF Sender(c, msg) = 0 THEN WsDropped(c)
  ELSE CASE msg.type = "cmd:move" -> HandleMove(c, Sender(c, msg), msg.dir)
         [] msg.type = "cmd:cast" -> HandleCast(c, Sender(c, msg), msg.skill)
         [] msg.type = "cmd:aim" -> HandleAim(c, Sender(c, msg), msg.dir)
         [] msg.type = "cmd:respawn" ->
              \E x \in SpawnXs : HandleRespawn(c, Sender(c, msg), x)

\* ws close of connection c with a bound player
WsClose(c) ==
  /\ commands' = commands + 1
  /\ connToPlayer[c] # 0
  /\ LET id == connToPlayer[c]
         w1 == [Cur EXCEPT !.hudSubs = Del(@, c), !.closed = @ \cup {c},
                           !.deadUntil = Del(@, id), !.life = Del(@, id)]
     IN  Commit(EmitCmdLeave(w1, id, now))
  /\ connToPlayer' = [connToPlayer EXCEPT ![c] = 0]
  /\ last' = [op |-> "close", conn |-> c, id |-> connToPlayer[c]]
  /\ UNCHANGED <<now, prev, ticks, nextId, botsEnsured, matchVars>>

\* ---------------------------------------------------------------- bot manager
\* whether the positions xs[k], ... are safe for the bots spawned one by one
RECURSIVE SafeBots(_, _, _, _)
SafeBots(w, id, xs, k) ==
  \/ k > Len(xs)
  \/ /\ SafeSpawn(w.players, SpawnPos(xs[k]), BOT_MIN_DISTANCE)
     /\ SafeBots([w EXCEPT !.players = Put(@, id, NewPlayer(SpawnPos(xs[k])))],
                 id + 1, xs, k + 1)

\* spawnBot() for the ids from id on, at the positions xs[k], ...
RECURSIVE SpawnBots(_, _, _, _)
SpawnBots(w, id, xs, k) ==
  IF k > Len(xs) THEN w
  ELSE
    LET w1 == [w EXCEPT !.players = Put(@, id, NewPlayer(SpawnPos(xs[k]))),
                        !.life = Put(@, id, {})]
        w2 == EmitPlayerJoin(w1, id)
    IN  SpawnBots([w2 EXCEPT !.botIds = @ \cup {id}], id + 1, xs, k + 1)

\* the deferred ensureBots(): spawn bots until BOT_COUNT of them are in the world
EnsureBots ==
  /\ ~botsEnsured
  /\ LET current == Cardinality(botIds \cap DOMAIN players)
         n == Max2(0, BOT_COUNT - current)
     IN  /\ nextId + n - 1 <= MaxPlayers
         /\ \E xs \in [1..n -> SpawnXs] :
              /\ SafeBots(Cur, nextId, xs, 1)
              /\ Commit(SpawnBots(Cur, nextId, xs, 1))
         /\ nextId' = nextId + n
  /\ botsEnsured' = TRUE
  /\ last' = [op |-> "ensureBots"]
  /\ UNCHANGED <<commands, now, prev, ticks, connToPlayer, matchVars>>

\* the respawn timeout the bot manager armed on player:die
BotRespawnTimeout(tm) ==
  /\ tm \in botTimers
  /\ now >= tm.at
  /\ LET w0 == [Cur EXCEPT !.botTimers = @ \ {tm}]
     IN  IF tm.id \notin DOMAIN players THEN Commit(w0)
         ELSE \E x \in {y \in SpawnXs :
                          SafeSpawn(players, SpawnPos(y), BOT_MIN_DISTANCE)} :
                Commit(EmitPlayerJoin(
                  [w0 EXCEPT !.players[tm.id] = Respawn(@, SpawnPos(x)),
                             !.life = Put(@, tm.id, {})], tm.id))
  /\ last' = [op |-> "botRespawn", id |-> tm.id]
  /\ UNCHANGED <<commands, now, prev, ticks, nextId, connToPlayer, botsEnsured, matchVars>>

\* The bot AI emits the same command events as the transport adapter does for a
\* client.  Which command it emits when is left open: a live bot may emit any.
LiveBot(b) == b \in botIds /\ b \in DOMAIN players /\ ~IsDeadPlayer(players[b])

BotMove(b, dir) ==
  /\ commands' = commands + 1
  /\ LiveBot(b)
  /\ Commit(EmitCmdMove(Cur, b, dir, now))
  /\ last' = [op |-> "bot:move", id |-> b]
  /\ UNCHANGED <<now, prev, ticks, nextId, connToPlayer, botsEnsured, matchVars>>

BotAim(b, dir) ==
  /\ commands' = commands + 1
  /\ LiveBot(b)
  /\ Commit(EmitCmdAim(Cur, b, dir, now))
  /\ last' = [op |-> "bot:aim", id |-> b]
  /\ UNCHANGED <<now, prev, ticks, nextId, connToPlayer, botsEnsured, matchVars>>

BotShoot(b) ==
  /\ commands' = commands + 1
  /\ LiveBot(b)
  /\ nextProjId <= MaxProjectiles
  /\ Commit(EmitCmdCast(Cur, b, "skill:shoot", now))
  /\ last' = [op |-> "bot:cast", id |-> b]
  /\ UNCHANGED <<now, prev, ticks, nextId, connToPlayer, botsEnsured, matchVars>>

\* ------------------------------------------------------------------ event bus
\* A damage:applied event published on the bus: the combat system's listener
\* handles whatever is published, by its own tick:post loop or by anyone else.
BusDamage(targetId, source, kind) ==
  /\ commands' = commands + 1
  /\ Commit(EmitDamageApplied(Cur, DamageEvent(targetId, kind.amount, source, kind.weapon),
                              now))
  /\ last' = [op |-> "damage:applied", targetId |-> targetId, source |-> source]
  /\ UNCHANGED <<now, prev, ticks, nextId, connToPlayer, botsEnsured, matchVars>>

\* ------------------------------------------------------------------ dispatch
\* event types whose only subscribers are the broadcaster (attachBroadcaster)
\* and, once its asynchronous init is over, the journal
QuietTypes == {"explosion:spawned", "knockback:applied", "dash:started"}

\* this.ee.listeners(type), in registration order
Listeners(type) == <<"broadcaster", "journal">>

\* EventEmitter.emit calls the listeners in order, with no try/catch: the one
\* that throws (thrower, 0 for none) ends the call
Invoke(ls, thrower) ==
  [ran |-> IF thrower = 0 THEN ls ELSE SubSeq(ls, 1, thrower),
   propagated |-> thrower # 0]

\* eventBus.emit of an event of a quiet type, in which a listener may throw
\* (the broadcaster, first in the list, before it has sent anything)
BusEmit(type, thrower) ==
  /\ commands' = commands + 1
  /\ ran' = Invoke(Listeners(type), thrower).ran
  /\ propagated' = Invoke(Listeners(type), thrower).propagated
  /\ CommitWorld(IF thrower = 1
                 THEN Publish(Cur, [type |-> type])
                 ELSE Emit(Cur, [type |-> type]))
  /\ last' = [op |-> "emit", type |-> type, thrower |-> thrower]
  /\ UNCHANGED <<now, prev, ticks, nextId, connToPlayer, botsEnsured, matchVars,
                 running, handle, intervals, timeouts>>

\* ---------------------------------------------------------------------- clock
\* the Timeout object a setInterval call returns: one that no live interval has
NewHandle == CHOOSE h \in 1..(Cardinality(intervals) + 1) : h \notin intervals

\* start() with its guard removed
AlreadyRunning_Never == FALSE

\* if (this.running) return;
AlreadyRunning == running

\* clock.start()
ClockStart ==
  /\ commands' = commands + 1
  /\ IF AlreadyRunning
     THEN UNCHANGED <<running, prev, handle, intervals>>
     ELSE /\ running' = TRUE
          /\ prev' = now
          /\ handle' = NewHandle
          /\ intervals' = intervals \cup {NewHandle}
  /\ CommitWorld(Cur)
  /\ last' = [op |-> "clock:start"]
  /\ UNCHANGED <<now, ticks, nextId, connToPlayer, botsEnsured, matchVars, ran, propagated,
                 timeouts>>

\* clock.stop()
ClockStop ==
  /\ commands' = commands + 1
  /\ running' = FALSE
  /\ handle' = 0
  /\ intervals' = IF handle # 0 THEN intervals \ {handle} ELSE intervals
  /\ CommitWorld(Cur)
  /\ last' = [op |-> "clock:stop"]
  /\ UNCHANGED <<now, prev, ticks, nextId, connToPlayer, botsEnsured, matchVars, ran,
                 propagated, timeouts>>

\* d ms pass while no interval is set
Wait(d) ==
  /\ intervals = {}
  /\ commands' = commands + 1
  /\ now' = now + d
  /\ Commit(Cur)
  /\ last' = [op |-> "wait"]
  /\ UNCHANGED <<prev, ticks, nextId, connToPlayer, botsEnsured, matchVars>>

\* ----------------------------------------------------------------------- HUD
\* what the handlers of the HUD, of the match system and of the journal leave
\* alone: the clock, the world and the systems working on it
gameVars == <<prev, running, handle, intervals, ticks, players, nextId, projectiles,
              nextProjId, pickups, nextPickupId, spawnAccum, hbAccumMs,
              recentDamage, lastMoveDir, lastBroadcastPos, lastFace, lastHBPos,
              dashing, connToPlayer, deadUntil, botIds, botTimers, botsEnsured,
              matchVars, ran, propagated, emitted, sent, dmgLog, lifeDamage>>

\* what the handlers of an EventJournal leave alone
BookFrame ==
  UNCHANGED <<gameVars, closed, hudSubs, hudSent, hudVars, sysVars>>

\* book.record(e), and copy.record(e) once the copy exists
BookRecord(e) ==
  /\ commands' = commands + 1
  /\ book' = Record(book, e, now)
  /\ copy' = IF copy = <<>> THEN copy ELSE <<Record(copy[1], e, now)>>
  /\ last' = [op |-> "record", e |-> e]
  /\ UNCHANGED now
  /\ BookFrame

\* copy = EventJournal.fromJSON(book.toJSON())
Restore ==
  /\ copy = <<>>
  /\ copy' = <<FromJSON(ToJSON(book))>>
  /\ last' = [op |-> "fromJSON"]
  /\ UNCHANGED <<now, commands, book>>
  /\ BookFrame

\* ------------------------------------------------------------- JournalSystem
\* config.excludeEvents
ExcludeEvents == {"tick:pre", "tick:post"}

\* config.maxJournalSize, scaled down with the number of events delivered
MaxJournalSize == 2

\* the journal system as a record
CurJ ==
  [isRecording |-> isRecording, currentJournal |-> currentJournal,
   currentMatchId |-> currentMatchId, eventCounter |-> eventCounter,
   autoSaveTimer |-> autoSaveTimer, subscribed |-> subscribed,
   journals |-> journals, files |-> files, tasks |-> tasks, index |-> index,
   failed |-> failed, appends |-> <<>>,
   stopCalled |-> stopCalled, stopDone |-> stopDone, openMatch |-> openMatch]

CommitJ(s) ==
  /\ isRecording' = s.isRecording
  /\ currentJournal' = s.currentJournal
  /\ currentMatchId' = s.currentMatchId
  /\ eventCounter' = s.eventCounter
  /\ autoSaveTimer' = s.autoSaveTimer
  /\ subscribed' = s.subscribed
  /\ journals' = s.journals
  /\ files' = s.files
  /\ tasks' = s.tasks
  /\ index' = s.index
  /\ failed' = s.failed
  /\ appends' = s.appends
  /\ stopCalled' = s.stopCalled
  /\ stopDone' = s.stopDone
  /\ openMatch' = s.openMatch
  /\ UNCHANGED <<gameVars, closed, hudSubs, hudSent, hudVars, bookVars>>

\* JOURNAL_STREAM_THRESHOLD (10000 by default), scaled down like
\* maxJournalSize
StreamThreshold == 2

\* what saveStreaming writes for journal jn: the metadata and the entries it
\* reads when it starts to write, the count being the number of entries
Streamed(jn) ==
  [metadata |-> [jn.metadata EXCEPT !.eventCount = Len(jn.entries)],
   entries |-> jn.entries]

\* storage.save(journal) up to its first await, for the function fn that
\* awaits it ("save": nobody does).  The metadata is read at once.  A small
\* journal is encoded at once and written later; for a journal of
\* StreamThreshold events or more saveStreaming first waits for mkdir.
Save(jn, i, fn) ==
  IF jn.metadata.eventCount >= StreamThreshold
  THEN [fn |-> fn, j |-> i, phase |-> "mkdir", meta |-> jn.metadata,
        data |-> ToJSON(NewEventJournal(0, 0, 0))]
  ELSE [fn |-> fn, j |-> i, phase |-> "write", meta |-> jn.metadata,
        data |-> ToJSON(jn)]

\* saveCurrentJournal() up to the await of storage.save
StartSave(s, fn) ==
  [s EXCEPT !.tasks = @ (+) SetToBag({Save(s.journals[s.currentJournal],
                                           s.currentJournal, fn)})]

\* updateIndex(metadata, filePath, fileSize)
IndexEntry(metadata) ==
  [id |-> metadata.id, matchId |-> metadata.matchId,
   createdAt |-> metadata.createdAt, duration |-> metadata.duration,
   eventCount |-> metadata.eventCount, playerIds |-> metadata.playerIds]

\* startNewJournal(matchId) at time t; matchId 0: none given
StartNewJournal(s, matchId, t) ==
  [(IF s.currentJournal # 0 THEN StartSave(s, "save") ELSE s) EXCEPT
     !.journals = Append(@, NewEventJournal(
                              Len(s.journals) + 1,
                              IF matchId # 0 THEN matchId ELSE s.currentMatchId, t)),
     !.currentJournal = Len(s.journals) + 1,
     !.isRecording = TRUE,
     !.eventCounter = 0]

\* the code after an await of saveCurrentJournal() in fn, at time t
Continue(s, fn, t) ==
  CASE fn = "matchEnded" -> StartNewJournal([s EXCEPT !.currentMatchId = 0], 0, t)
    [] fn = "rotate" -> StartNewJournal(s, s.currentMatchId, t)
    [] fn = "stop" -> [s EXCEPT !.currentJournal = 0, !.stopDone = TRUE]
    [] fn = "init" -> [StartNewJournal(s, 0, t) EXCEPT !.autoSaveTimer = TRUE,
                                                       !.subscribed = TRUE]
    [] OTHER -> s

\* await this.saveCurrentJournal() in fn: with no current journal nothing is
\* awaited for and fn goes on before any other handler runs
AwaitSave(s, fn, t) ==
  IF s.currentJournal = 0 THEN Continue(s, fn, t) ELSE StartSave(s, fn)

\* recordEvent(event) at time t
RecordEvent(s, e, t) ==
  IF s.currentJournal = 0 THEN s
  ELSE IF s.eventCounter + 1 >= MaxJournalSize
  THEN StartSave([s EXCEPT !.journals[s.currentJournal] = Record(@, e, t),
                           !.eventCounter = @ + 1,
                           !.appends = Append(@, s.currentJournal)],
                 "rotate")
  ELSE [s EXCEPT !.journals[s.currentJournal] = Record(@, e, t),
                 !.eventCounter = @ + 1,
                 !.appends = Append(@, s.currentJournal)]

\* shouldRecordEvent(event)
ShouldRecordEvent(s, e) == s.isRecording /\ e.type \notin ExcludeEvents

\* the listener subscribeToEvents registers for every type not excluded
RecordListener(s, e, t) ==
  IF e.type \notin ExcludeEvents /\ ShouldRecordEvent(s, e)
  THEN RecordEvent(s, e, t) ELSE s

\* handleMatchCreated(event)
HandleMatchCreated(s, e, t) ==
  RecordEvent(StartNewJournal([s EXCEPT !.currentMatchId = e.id, !.openMatch = e.id],
                              e.id, t),
              e, t)

\* handleMatchEnded(event)
HandleMatchEnded(s, e, t) ==
  AwaitSave([RecordEvent(s, e, t) EXCEPT !.openMatch = 0], "matchEnded", t)

\* the bus delivers e to the journal system: its listeners in the order they
\* were registered
JournalOnEvent(e) ==
  /\ subscribed
  /\ commands' = commands + 1
  /\ CommitJ(CASE e.type = "match:created" ->
                    HandleMatchCreated(RecordListener(CurJ, e, now), e, now)
               [] e.type = "match:ended" ->
                    HandleMatchEnded(RecordListener(CurJ, e, now), e, now)
               [] OTHER -> RecordListener(CurJ, e, now))
  /\ last' = [op |-> "journal:event", e |-> e]
  /\ UNCHANGED now

\* the auto-save interval fires: autoSave()
AutoSave ==
  /\ autoSaveTimer
  /\ commands' = commands + 1
  /\ CommitJ(IF currentJournal = 0 \/ eventCounter = 0 THEN CurJ
             ELSE StartSave(CurJ, "autoSave"))
  /\ last' = [op |-> "autoSave"]
  /\ UNCHANGED now

\* journalSystem.stop() up to its await
JournalStop ==
  /\ ~stopCalled
  /\ commands' = commands + 1
  /\ CommitJ(AwaitSave([CurJ EXCEPT !.isRecording = FALSE, !.autoSaveTimer = FALSE,
                                    !.stopCalled = TRUE],
                       "stop", now))
  /\ last' = [op |-> "stop"]
  /\ UNCHANGED now

\* the pending await k is over.  After mkdir saveStreaming reads the journal
\* and starts to write.  When the file of a save is written the index entry is
\* set from the metadata save() read, and the function that awaited goes on.
Resume(k) ==
  /\ BagIn(k, tasks)
  /\ CommitJ(IF k.phase = "mkdir"
             THEN [CurJ EXCEPT !.tasks = (@ (-) SetToBag({k})) (+)
                                 SetToBag({[k EXCEPT !.phase = "write",
                                              !.data = Streamed(journals[k.j])]})]
             ELSE Continue([CurJ EXCEPT
                              !.tasks = @ (-) SetToBag({k}),
                              !.files = IF k.j # 0 THEN Put(@, k.j, k.data) ELSE @,
                              !.index = IF k.j # 0 THEN Put(@, k.j, IndexEntry(k.meta))
                                        ELSE @],
                           k.fn, now))
  /\ last' = [op |-> "resume", fn |-> k.fn, j |-> k.j, phase |-> k.phase]
  /\ UNCHANGED <<now, commands>>

\* the pending save k fails (mkdir, gzip or the write rejects): no file is
\* written, saveCurrentJournal logs the error and the function that awaited
\* goes on
SaveFails(k) ==
  /\ BagIn(k, tasks)
  /\ k.j # 0
  /\ CommitJ(Continue([CurJ EXCEPT !.tasks = @ (-) SetToBag({k}),
                                   !.failed = @ \cup {k.j}],
                      k.fn, now))
  /\ last' = [op |-> "save:failed", fn |-> k.fn, j |-> k.j, phase |-> k.phase]
  /\ UNCHANGED <<now, commands>>

\* the widget keys a subscription may name
ALLOWED_WIDGET_KEYS == {"scoreboard", "match", "feed", "streaks", "announcements"}

\* HudSystem.widgets
Widgets == <<"scoreboard", "match", "feed", "streaks", "announcements">>

\* the type of the message widget key's snapshot() returns
HudType(key) ==
  IF key = "announcements" THEN "hud:announce:update"
  ELSE "hud:" \o key \o ":update"

\* the event types the HudSystem listens to
Triggers ==
  {"player:join", "player:leave", "player:die", "score:update", "session:started",
   "match:created", "match:started", "match:ended", "tick:post", "feed:entry",
   "streak:changed", "damage:applied", "buff:applied"}

\* AnnouncementsWidget.onEvent: thresholds
Thresholds ==
  <<[n |-> 2, category |-> "double_kill"], [n |-> 3, category |-> "killing_spree"],
    [n |-> 5, category |-> "unstoppable"], [n |-> 7, category |-> "rampage"],
    [n |-> 10, category |-> "legendary"]>>

\* thresholds.filter((t) => streak >= t.n && prev < t.n)
Reached(streak, prevStreak) ==
  SelectSeq(Thresholds, LAMBDA t : streak >= t.n /\ prevStreak < t.n)

\* the first of the thresholds crossed instead of the last
Crossed_First(streak, prevStreak) ==
  IF Reached(streak, prevStreak) = <<>> THEN <<>>
  ELSE <<Head(Reached(streak, prevStreak))>>

\* .pop(): the last of the thresholds crossed, <<>> if there is none
Crossed(streak, prevStreak) ==
  IF Reached(streak, prevStreak) = <<>> THEN <<>>
  ELSE <<Reached(streak, prevStreak)[Len(Reached(streak, prevStreak))]>>

\* buffer.filter((it) => now - it.timestamp < ttl)
Fresh(buffer, ttl, t) == SelectSeq(buffer, LAMBDA it : t - it.timestamp < ttl)

\* while (buffer.length > max) buffer.shift()
ShiftAll(buffer, max) ==
  IF Len(buffer) > max THEN SubSeq(buffer, Len(buffer) - max + 1, Len(buffer))
  ELSE buffer

\* if (buffer.length > max) buffer.shift()
ShiftOne(buffer, max) == IF Len(buffer) > max THEN Tail(buffer) ELSE buffer

\* AnnouncementsWidget.onEvent(e) at time t: the buffer it leaves and its result
AnnouncementsOnEvent(buffer, e, t) ==
  IF e.type = "streak:changed"
  THEN IF Crossed(e.streak, e.previousStreak) # <<>>
       THEN [buffer |->
               ShiftAll(Append(buffer,
                               [playerId |-> e.playerId,
                                category |-> Crossed(e.streak, e.previousStreak)[1].category,
                                streak |-> e.streak, timestamp |-> t]),
                        MAX),
             changed |-> TRUE]
       ELSE [buffer |-> buffer, changed |-> FALSE]
  ELSE IF e.type = "tick:post"
  THEN [buffer |-> Fresh(buffer, TTL, t),
        changed |-> Len(Fresh(buffer, TTL, t)) # Len(buffer)]
  ELSE [buffer |-> buffer, changed |-> e.type = "session:started"]

\* FeedWidget.onEvent(e) at time t
FeedOnEvent(buffer, e, t) ==
  IF e.type = "feed:entry"
  THEN [buffer |->
          ShiftOne(Append(buffer,
                          [killer |-> e.killer, victim |-> e.victim,
                           timestamp |-> IF e.timestamp # 0 THEN e.timestamp ELSE t]),
                   FEED_MAX),
        changed |-> TRUE]
  ELSE IF e.type = "tick:post"
  THEN [buffer |-> Fresh(buffer, FEED_TTL, t),
        changed |-> Len(Fresh(buffer, FEED_TTL, t)) # Len(buffer)]
  ELSE [buffer |-> buffer, changed |-> e.type = "session:started"]

\* ScoreboardWidget.onEvent(e)
ScoreboardOnEvent(e) ==
  e.type \in {"score:update", "player:join", "player:leave", "player:die",
              "session:started"}

\* StreaksWidget.onEvent(e)
StreaksOnEvent(e) ==
  e.type \in {"streak:changed", "player:join", "player:leave", "player:die",
              "session:started"}

\* MatchWidget.onEvent(e): a tick:post dirties the widget unless it is
\* throttled (less than throttleMs after the last push)
MatchOnEvent(e, throttled) ==
  \/ e.type \in {"match:created", "match:started", "match:ended", "session:started"}
  \/ e.type = "tick:post" /\ ~throttled

\* the keys of the widgets whose onEvent(e) returns true
ChangedKeys(e, t, throttled) ==
  {k \in ALLOWED_WIDGET_KEYS :
     \/ k = "scoreboard" /\ ScoreboardOnEvent(e)
     \/ k = "match" /\ MatchOnEvent(e, throttled)
     \/ k = "feed" /\ FeedOnEvent(feed, e, t).changed
     \/ k = "streaks" /\ StreaksOnEvent(e)
     \/ k = "announcements" /\ AnnouncementsOnEvent(announcements, e, t).changed}

\* the timer field of a message no timeout sent
NoTimer == [fn |-> "none", id |-> 0, at |-> 0, delay |-> 0]

\* the time a pending timeout is due
Due(tm) == tm.at + tm.delay

\* timers fire in the order they are due
Earliest(tm) == \A o \in timeouts : Due(tm) <= Due(o)

\* the delay onAnyEvent asks a flush for
FlushDelayOf(e) ==
  IF e.type = "feed:entry" \/ e.type = "streak:changed" THEN 0 ELSE FLUSH_DELAY

\* scheduleFlush(delay)
ScheduleFlush(delay) ==
  IF flushing
  THEN UNCHANGED <<flushing, timeouts>>
  ELSE /\ flushing' = TRUE
       /\ timeouts' = timeouts \cup {[fn |-> "flush", id |-> 0, at |-> now, delay |-> delay]}

\* the bus calls the HudSystem's listener with e: onAnyEvent(e)
OnAnyEvent(e, throttled) ==
  /\ commands' = commands + 1
  /\ announcements' = AnnouncementsOnEvent(announcements, e, now).buffer
  /\ feed' = FeedOnEvent(feed, e, now).buffer
  /\ dirty' = dirty \cup ChangedKeys(e, now, throttled)
  /\ marks' = [k \in dirty \cup ChangedKeys(e, now, throttled) |->
                 Get(marks, k, {}) \cup
                 IF k \in ChangedKeys(e, now, throttled)
                 THEN {[type |-> e.type, at |-> now]} ELSE {}]
  /\ ScheduleFlush(FlushDelayOf(e))
  /\ hudSent' = {}
  /\ last' = [op |-> "hud:event", e |-> e]
  /\ UNCHANGED <<now, closed, hudSubs>>
  /\ UNCHANGED <<gameVars, journalVars>>

\* client.readyState === 1
Open(c) == c \notin closed

\* every open client, whatever it subscribed to
Subscribed_Any(c, key) == TRUE

\* subs && subs.has(widgetKey)
Subscribed(c, key) == c \in DOMAIN hudSubs /\ key \in hudSubs[c]

\* sendToHudSubscribers(key, message): the clients it sends to; those in slow
\* have more than 1,000,000 bytes buffered
Receivers(key, slow) ==
  {c \in Conns : Open(c) /\ c \notin slow /\ Subscribed(c, key)}

\* the messages a snapshot of each of keys puts on the wire
HudMessages(keys, slow, via, tm) ==
  UNION {{[conn |-> c, key |-> k, type |-> HudType(k), via |-> via, timer |-> tm,
           marks |-> Get(marks, k, {})] : c \in Receivers(k, slow)} : k \in keys}

\* snapshot() of the widgets in keys at time t: the buffers they leave
SnapshotAnnouncements(keys, t) ==
  IF "announcements" \in keys THEN Fresh(announcements, TTL, t) ELSE announcements

SnapshotFeed(keys, t) ==
  IF "feed" \in keys THEN Fresh(feed, FEED_TTL, t) ELSE feed

\* the keys a flush snapshots
FlushKeys_None == {}

FlushKeys == dirty

\* the timeout scheduleFlush set fires
Flush(tm, slow) ==
  /\ tm.fn = "flush"
  /\ Earliest(tm)
  /\ now' = Max2(now, Due(tm))
  /\ hudSent' = HudMessages(FlushKeys, slow, "flush", tm)
  /\ announcements' = SnapshotAnnouncements(FlushKeys, Max2(now, Due(tm)))
  /\ feed' = SnapshotFeed(FlushKeys, Max2(now, Due(tm)))
  /\ dirty' = {}
  /\ marks' = EmptyMap
  /\ flushing' = FALSE
  /\ timeouts' = timeouts \ {tm}
  /\ last' = [op |-> "flush", keys |-> FlushKeys, timer |-> tm, slow |-> slow]
  /\ UNCHANGED <<commands, closed, hudSubs>>
  /\ UNCHANGED <<gameVars, journalVars>>

\* the timeout the constructor set fires: pushAll()
PushAll(tm, slow) ==
  /\ tm.fn = "pushAll"
  /\ Earliest(tm)
  /\ now' = Max2(now, Due(tm))
  /\ hudSent' = HudMessages(ALLOWED_WIDGET_KEYS, slow, "pushAll", tm)
  /\ announcements' = Fresh(announcements, TTL, Max2(now, Due(tm)))
  /\ feed' = Fresh(feed, FEED_TTL, Max2(now, Due(tm)))
  /\ timeouts' = timeouts \ {tm}
  /\ last' = [op |-> "pushAll"]
  /\ UNCHANGED <<commands, closed, hudSubs, dirty, marks, flushing>>
  /\ UNCHANGED <<gameVars, journalVars>>

\* widgets.filter((w) => ALLOWED_WIDGET_KEYS.has(w))
AllowedKeys(widgets) == widgets \cap ALLOWED_WIDGET_KEYS

\* cmd:hud:subscribe from connection c; slow: c has too much buffered
WsHudSubscribe(c, widgets, slow) ==
  /\ Open(c)
  /\ commands' = commands + 1
  /\ hudSubs' = Put(hudSubs, c, Get(hudSubs, c, {}) \cup AllowedKeys(widgets))
  /\ hudSent' = IF slow THEN {}
                ELSE {[conn |-> c, key |-> k, type |-> HudType(k), via |-> "initial",
                       timer |-> NoTimer, marks |-> {}] :
                      k \in AllowedKeys(widgets)}
  /\ announcements' = SnapshotAnnouncements(AllowedKeys(widgets), now)
  /\ feed' = SnapshotFeed(AllowedKeys(widgets), now)
  /\ last' = [op |-> "cmd:hud:subscribe", conn |-> c, widgets |-> widgets]
  /\ UNCHANGED <<now, closed, dirty, marks, flushing, timeouts>>
  /\ UNCHANGED <<gameVars, journalVars>>

\* cmd:hud:unsubscribe from connection c
WsHudUnsubscribe(c, widgets) ==
  /\ Open(c)
  /\ commands' = commands + 1
  /\ hudSubs' = IF c \in DOMAIN hudSubs
                THEN [hudSubs EXCEPT ![c] = @ \ AllowedKeys(widgets)]
                ELSE hudSubs
  /\ hudSent' = {}
  /\ last' = [op |-> "cmd:hud:unsubscribe", conn |-> c, widgets |-> widgets]
  /\ UNCHANGED <<now, closed>>
  /\ UNCHANGED hudVars
  /\ UNCHANGED <<gameVars, journalVars>>

\* close of a connection no player is bound to
WsCloseIdle(c) ==
  /\ Open(c)
  /\ connToPlayer[c] = 0
  /\ commands' = commands + 1
  /\ Commit([Cur EXCEPT !.hudSubs = Del(@, c), !.closed = @ \cup {c}])
  /\ last' = [op |-> "close", conn |-> c, id |-> 0]
  /\ UNCHANGED <<now, prev, ticks, nextId, connToPlayer, botsEnsured, matchVars>>

\* d ms pass in which no timeout is due
Pass(d) ==
  /\ \A tm \in timeouts : now + d <= Due(tm)
  /\ commands' = commands + 1
  /\ now' = now + d
  /\ hudSent' = {}
  /\ last' = [op |-> "pass", d |-> d]
  /\ UNCHANGED <<closed, hudSubs>>
  /\ UNCHANGED hudVars
  /\ UNCHANGED <<gameVars, journalVars>>

\* --------------------------------------------------------------- match system
RECURSIVE ResetScores(_, _, _)
ResetScores(w, ids, i) ==
  IF i > Len(ids) THEN w
  ELSE ResetScores(
         Emit([w EXCEPT !.players[ids[i]].stats = StatsReset],
              [type |-> "score:update", playerId |-> ids[i],
               kills |-> 0, deaths |-> 0, assists |-> 0]),
         ids, i + 1)

\* broadcast(message): sent to the open clients directly, not through the bus
Broadcast(w, e) == [w EXCEPT !.wire = Append(@, e)]

\* the Match createDemoMatch builds (its players set is written on player:join
\* and read nowhere; it is left out)
NewMatch == [mode |-> "deathmatch", phase |-> "idle", startsAt |-> 0, endsAt |-> 0]

\* what a handler of the match system leaves alone
MatchFrame ==
  UNCHANGED <<prev, ticks, nextId, connToPlayer, botsEnsured, running, handle,
              intervals, ran, propagated>>

\* startCountdown's guard with the phase test removed
CountdownRefused_Unknown(id) == id \notin DOMAIN matches

\* if (!match || match.phase !== 'idle') return;
CountdownRefused(id) == id \notin DOMAIN matches \/ matches[id].phase # "idle"

\* startCountdown(id, countdownMs) at time t; pending: the timeouts waiting
StartCountdown(id, countdownMs, t, pending) ==
  IF CountdownRefused(id)
  THEN /\ UNCHANGED matchVars
       /\ timeouts' = pending
       /\ CommitWorld(Cur)
  ELSE /\ matches' = [matches EXCEPT ![id].phase = "countdown",
                                     ![id].startsAt = t + countdownMs]
       /\ announced' = announced \cup {[type |-> "match:created", id |-> id]}
       /\ timeouts' = pending \cup {[fn |-> "startMatch", id |-> id, at |-> t,
                                     delay |-> countdownMs]}
       /\ CommitWorld(Broadcast(Cur, [type |-> "match:created", id |-> id,
                                      countdownMs |-> countdownMs]))
       /\ UNCHANGED currentMatch

\* if (!match) return;
StartRefused(id) == id \notin DOMAIN matches

\* startMatch(id, durationMs) at time t; durationMs = 0: no duration given
StartMatch(id, durationMs, t, pending) ==
  IF StartRefused(id)
  THEN /\ UNCHANGED matchVars
       /\ timeouts' = pending
       /\ CommitWorld(Cur)
  ELSE /\ matches' = [matches EXCEPT ![id].phase = "active",
                                     ![id].endsAt = IF durationMs # 0 THEN t + durationMs
                                                    ELSE @]
       /\ announced' = announced \cup {[type |-> "match:started", id |-> id]}
       /\ timeouts' = IF durationMs # 0
                      THEN pending \cup {[fn |-> "endMatch", id |-> id, at |-> t,
                                          delay |-> durationMs]}
                      ELSE pending
       /\ CommitWorld(Broadcast(ResetScores(Cur, IdSeq(DOMAIN players), 1),
                                [type |-> "match:started", id |-> id,
                                 durationMs |-> durationMs]))
       /\ UNCHANGED currentMatch

\* if (!match || match.phase !== 'active') return;
EndRefused(id) == id \notin DOMAIN matches \/ matches[id].phase # "active"

\* endMatch(id) at time t
EndMatch(id, t, pending) ==
  IF EndRefused(id)
  THEN /\ UNCHANGED matchVars
       /\ timeouts' = pending
       /\ CommitWorld(Cur)
  ELSE /\ matches' = [matches EXCEPT ![id].phase = "ended", ![id].endsAt = t]
       /\ announced' = announced \cup {[type |-> "match:ended", id |-> id]}
       /\ timeouts' = pending \cup {[fn |-> "cleanup", id |-> id, at |-> t,
                                     delay |-> CLEANUP_DELAY]}
       /\ CommitWorld(Broadcast(Cur, [type |-> "match:ended", id |-> id, at |-> t]))
       /\ UNCHANGED currentMatch

\* the timeout of the constructor or of a cleanup fires: createDemoMatch();
\* the id is match-<Date.now()>
CreateDemoMatch(tm) ==
  /\ tm.fn = "createDemoMatch"
  /\ Earliest(tm)
  /\ now' = Max2(now, Due(tm))
  /\ matches' = Put(matches, Max2(now, Due(tm)), NewMatch)
  /\ currentMatch' = Max2(now, Due(tm))
  /\ timeouts' = (timeouts \ {tm}) \cup
                 {[fn |-> "demoCountdown", id |-> Max2(now, Due(tm)),
                   at |-> Max2(now, Due(tm)), delay |-> DEMO_IDLE_MS]}
  /\ CommitWorld(Cur)
  /\ last' = [op |-> "createDemoMatch", id |-> Max2(now, Due(tm))]
  /\ UNCHANGED <<commands, announced>>
  /\ MatchFrame

\* the timeout createDemoMatch set fires
DemoCountdown(tm) ==
  /\ tm.fn = "demoCountdown"
  /\ Earliest(tm)
  /\ now' = Max2(now, Due(tm))
  /\ IF currentMatch = tm.id
     THEN StartCountdown(tm.id, DEMO_COUNTDOWN_MS, Max2(now, Due(tm)), timeouts \ {tm})
     ELSE /\ UNCHANGED matchVars
          /\ timeouts' = timeouts \ {tm}
          /\ CommitWorld(Cur)
  /\ last' = [op |-> "startCountdown", id |-> tm.id, by |-> "timeout"]
  /\ UNCHANGED commands
  /\ MatchFrame

\* the timeout startCountdown set fires
CountdownOver(tm) ==
  /\ tm.fn = "startMatch"
  /\ Earliest(tm)
  /\ now' = Max2(now, Due(tm))
  /\ StartMatch(tm.id, DEMO_DURATION_MS, Max2(now, Due(tm)), timeouts \ {tm})
  /\ last' = [op |-> "startMatch", id |-> tm.id, by |-> "timeout"]
  /\ UNCHANGED commands
  /\ MatchFrame

\* the timeout startMatch set fires
DurationOver(tm) ==
  /\ tm.fn = "endMatch"
  /\ Earliest(tm)
  /\ now' = Max2(now, Due(tm))
  /\ EndMatch(tm.id, Max2(now, Due(tm)), timeouts \ {tm})
  /\ last' = [op |-> "endMatch", id |-> tm.id, by |-> "timeout"]
  /\ UNCHANGED commands
  /\ MatchFrame

\* the timeout endMatch set fires
Cleanup(tm) ==
  /\ tm.fn = "cleanup"
  /\ Earliest(tm)
  /\ now' = Max2(now, Due(tm))
  /\ matches' = Del(matches, tm.id)
  /\ currentMatch' = IF currentMatch = tm.id THEN 0 ELSE currentMatch
  /\ timeouts' = IF currentMatch = tm.id
                 THEN (timeouts \ {tm}) \cup
                      {[fn |-> "createDemoMatch", id |-> 0, at |-> Max2(now, Due(tm)),
                        delay |-> NEXT_DEMO_DELAY]}
                 ELSE timeouts \ {tm}
  /\ CommitWorld(Cur)
  /\ last' = [op |-> "cleanup", id |-> tm.id]
  /\ UNCHANGED <<commands, announced>>
  /\ MatchFrame

\* a timeout of the match system fires
MatchTimeout ==
  \E tm \in timeouts :
    \/ CreateDemoMatch(tm)
    \/ DemoCountdown(tm)
    \/ CountdownOver(tm)
    \/ DurationOver(tm)
    \/ Cleanup(tm)

\* matchSystem.startCountdown(id, countdownMs) called by other code
CallStartCountdown(id, countdownMs) ==
  /\ commands' = commands + 1
  /\ StartCountdown(id, countdownMs, now, timeouts)
  /\ last' = [op |-> "startCountdown", id |-> id, by |-> "call"]
  /\ UNCHANGED now
  /\ MatchFrame

\* matchSystem.startMatch(id, durationMs) called by other code
CallStartMatch(id, durationMs) ==
  /\ commands' = commands + 1
  /\ StartMatch(id, durationMs, now, timeouts)
  /\ last' = [op |-> "startMatch", id |-> id, by |-> "call"]
  /\ UNCHANGED now
  /\ MatchFrame

\* matchSystem.endMatch(id) called by other code
CallEndMatch(id) ==
  /\ commands' = commands + 1
  /\ EndMatch(id, now, timeouts)
  /\ last' = [op |-> "endMatch", id |-> id, by |-> "call"]
  /\ UNCHANGED now
  /\ MatchFrame

\* ---------------------------------------------------------------------- spec
\* The server under an arbitrary environment.
Command ==
  \/ \E c \in Conns, dir \in MoveDirs : WsMove(c, dir)
  \/ \E c \in Conns, dir \in AimDirs : WsAim(c, dir)
  \/ \E c \in Conns, skill \in Skills : WsCast(c, skill)
  \/ \E c \in Conns, x \in SpawnXs : WsRespawn(c, x)
  \/ \E c \in Conns : WsClose(c)
  \/ \E b \in botIds, dir \in MoveDirs : BotMove(b, dir)
  \/ \E b \in botIds, dir \in AimDirs : BotAim(b, dir)
  \/ \E b \in botIds : BotShoot(b)
  \/ \E t \in 1..MaxPlayers, s \in 1..MaxPlayers, k \in DamageKinds : BusDamage(t, s, k)

Next ==
  \/ \E d \in TickSteps, skew \in {0, SkewMs}, kind \in PickupKinds :
       ticks < MaxTicks /\ Tick(d, skew, kind)
  \/ \E c \in Conns, x \in SpawnXs : WsJoin(c, x)
  \/ EnsureBots
  \/ \E tm \in botTimers : BotRespawnTimeout(tm)
  \/ MatchTimeout
  \/ \E tm \in timeouts : PushAll(tm, {})
  \/ commands < MaxCommands /\ Command

Spec == Init /\ [][Next]_vars

\* The server under three environments, each a part of Next that TLC can
\* explore in full.  The k-th player joins from the k-th connection at a fixed
\* place, and a client casts a skill only when it is off cooldown.
ConnSeq == <<"c1", "c2", "c3", "c4">>
JoinAt(k, x) == nextId = k /\ WsJoin(ConnSeq[k], x)
Joined(n) == nextId > n
Bound(c) == connToPlayer[c] \in DOMAIN players
Ready(c, skill) == Bound(c) /\ ~OnCooldown(players[connToPlayer[c]], skill, now)
Dead(c) == Bound(c) /\ IsDeadPlayer(players[connToPlayer[c]])

\* Afterlife: client c1 fires at the place where c2 joins; c2, once dead,
\* sends commands; it asks to respawn dead or alive.
AfterlifeTicks == 6
AfterlifeCommands == 4
NextAfterlife ==
  \/ \E skew \in {0, SkewMs}, kind \in {"heal", "haste"} :
       ticks < AfterlifeTicks /\ Tick(MAX_DT_MS, skew, kind)
  \/ ticks < AfterlifeTicks /\ Dead("c2") /\ Tick(RESPAWN_DELAY - SkewMs, 0, "heal")
  \/ ticks <= 1 /\ JoinAt(1, 100)
  \/ JoinAt(2, 220)
  \/ \E skill \in {"skill:shoot", "skill:shotgun", "skill:rocket"} :
       commands < AfterlifeCommands /\ Ready("c1", skill) /\ WsCast("c1", skill)
  \/ commands < AfterlifeCommands /\ Dead("c2") /\ WsCast("c2", "skill:dash")
  \/ \E dir \in MoveDirs : commands < AfterlifeCommands /\ Dead("c2") /\ WsMove("c2", dir)
  \/ \E dir \in AimDirs : commands < AfterlifeCommands /\ Dead("c2") /\ WsAim("c2", dir)
  \/ commands < AfterlifeCommands /\ WsRespawn("c2", 340)

SpecAfterlife == Init /\ [][NextAfterlife]_vars

\* Duel: c1 fires at c2 and walks up to it, c2 turns round and fires a rocket.
DuelTicks == 5
DuelCommands == 5
NextDuel ==
  \/ ticks < DuelTicks /\ Joined(2) /\ Tick(MAX_DT_MS, 0, "heal")
  \/ JoinAt(1, 100)
  \/ JoinAt(2, 220)
  \/ \E skill \in {"skill:shoot", "skill:shotgun"} :
       commands < DuelCommands /\ Ready("c1", skill) /\ WsCast("c1", skill)
  \/ \E dir \in MoveDirs :
       commands < DuelCommands /\ lastMoveDir = EmptyMap /\ WsMove("c1", dir)
  \/ \E dir \in AimDirs :
       commands < DuelCommands /\ Bound("c2") /\ players[connToPlayer["c2"]].faceTarget = 0
         /\ WsAim("c2", dir)
  \/ commands < DuelCommands /\ Ready("c2", "skill:rocket") /\ WsCast("c2", "skill:rocket")

SpecDuel == Init /\ [][NextDuel]_vars

\* Bus: damage:applied events for player 1 are published among four players,
\* player 1 dashes and respawns, while the clock ticks.
BusTicks == 3
BusEvents == 6
BusTargets == {1}
NextBus ==
  \/ \E d \in TickSteps : ticks < BusTicks /\ Joined(4) /\ Tick(d, 0, "heal")
  \/ JoinAt(1, 100)
  \/ JoinAt(2, 220)
  \/ JoinAt(3, 340)
  \/ JoinAt(4, 460)
  \/ \E t \in BusTargets, s \in 1..MaxPlayers, k \in DamageKinds :
       commands < BusEvents /\ Joined(4) /\ BusDamage(t, s, k)
  \/ commands < BusEvents /\ Ready("c1", "skill:dash") /\ WsCast("c1", "skill:dash")
  \/ commands < BusEvents /\ Dead("c1") /\ WsRespawn("c1", 580)

SpecBus == Init /\ [][NextBus]_vars

\* Cooldown: one client casts any skill at any time, on cooldown or not; the
\* clock advances by a frame or by the cooldown of a shot.
CooldownTicks == 5
CooldownCommands == 4
NextCooldown ==
  \/ \E d \in {MAX_DT_MS, CD_SHOOT} :
       ticks < CooldownTicks /\ Joined(1) /\ Tick(d, 0, "heal")
  \/ JoinAt(1, 100)
  \/ \E skill \in Skills : commands < CooldownCommands /\ WsCast("c1", skill)

SpecCooldown == Init /\ [][NextCooldown]_vars

\* Crossfire: c1 fires along the line on which c2 walks up to c3.
CrossfireTicks == 5
CrossfireCommands == 3
NextCrossfire ==
  \/ ticks < CrossfireTicks /\ Joined(3) /\ Tick(MAX_DT_MS, 0, "heal")
  \/ JoinAt(1, 100)
  \/ JoinAt(2, 220)
  \/ JoinAt(3, 340)
  \/ \E skill \in {"skill:shoot", "skill:shotgun"} :
       commands < CrossfireCommands /\ Ready("c1", skill) /\ WsCast("c1", skill)
  \/ \E dir \in MoveDirs :
       commands < CrossfireCommands /\ Joined(3) /\ lastMoveDir = EmptyMap
         /\ WsMove("c2", dir)

SpecCrossfire == Init /\ [][NextCrossfire]_vars

\* Clock: start() and stop() are called at any time between two frames; two
\* clients join, one fires at the other, who walks away; frames follow each
\* other after a clamped step or a long stall.
ClockTicks == 4
ClockCommands == 5
\* 1000 / TPS, in whole ms
TICK_MS == 33
ClockSteps == {TICK_MS} \cup TickSteps
NextClock ==
  \/ \E d \in ClockSteps : ticks < ClockTicks /\ Tick(d, 0, "heal")
  \/ JoinAt(1, 100)
  \/ JoinAt(2, 220)
  \/ commands < ClockCommands /\ Ready("c1", "skill:shoot") /\ WsCast("c1", "skill:shoot")
  \/ commands < ClockCommands /\ Bound("c2") /\ lastMoveDir = EmptyMap
       /\ WsMove("c2", [x |-> DIR_UNIT, y |-> 0])
  \/ commands < ClockCommands /\ ClockStart
  \/ commands < ClockCommands /\ ClockStop
  \/ commands < ClockCommands /\ Wait(MAX_DT_MS)

SpecClock == Init /\ [][NextClock]_vars

\* Throw: events are emitted on the bus while clients join and the clock
\* ticks; any listener may throw.
ThrowTicks == 3
ThrowEvents == 3
NextThrow ==
  \/ \E d \in TickSteps : ticks < ThrowTicks /\ Tick(d, 0, "heal")
  \/ JoinAt(1, 100)
  \/ JoinAt(2, 220)
  \/ \E type \in QuietTypes : \E thrower \in 0..Len(Listeners(type)) :
       commands < ThrowEvents /\ Bound("c1") /\ BusEmit(type, thrower)

SpecThrow == Init /\ [][NextThrow]_vars

\* Spoof: two clients have joined and a third connection has not; each sends
\* any message with any playerId in it.
SpoofTicks == 2
SpoofCommands == 3
NextSpoof ==
  \/ \E d \in TickSteps : ticks < SpoofTicks /\ Joined(2) /\ Tick(d, 0, "heal")
  \/ JoinAt(1, 100)
  \/ JoinAt(2, 220)
  \/ \E c \in {"c1", "c2", "c3"}, msg \in Messages :
       commands < SpoofCommands /\ Joined(2) /\ WsMessage(c, msg)

SpecSpoof == Init /\ [][NextSpoof]_vars

\* Leave: two clients join, move, dash and fire, and close their connections
\* at any time.
LeaveTicks == 3
LeaveCommands == 4
NextLeave ==
  \/ \E d \in TickSteps : ticks < LeaveTicks /\ Joined(2) /\ Tick(d, 0, "heal")
  \/ JoinAt(1, 100)
  \/ JoinAt(2, 220)
  \/ \E c \in {"c1", "c2"}, skill \in {"skill:shoot", "skill:dash"} :
       commands < LeaveCommands /\ Ready(c, skill) /\ WsCast(c, skill)
  \/ \E c \in {"c1", "c2"}, dir \in MoveDirs :
       commands < LeaveCommands /\ Bound(c) /\ WsMove(c, dir)
  \/ \E c \in {"c1", "c2"} : commands < LeaveCommands /\ Bound(c) /\ WsClose(c)

SpecLeave == Init /\ [][NextLeave]_vars

\* HUD: two spectators subscribe to widgets, unsubscribe and close while the
\* bus delivers events to the HudSystem and its timeouts fire.
HudCommands == 4
HudConns == {"c1", "c2"}
\* the widgets arrays a client sends; minimap is no widget key
HudRequests == {{"feed"}, {"announcements", "minimap"}, {"feed", "announcements"}}
\* ms that pass between two handlers; the behaviours end before the first
\* timeout of the match system is due
HudSteps == {10, 300}
\* the events the bus delivers to the HudSystem
HudEvents ==
  {[type |-> "tick:post"], [type |-> "damage:applied"],
   [type |-> "feed:entry", killer |-> 1, victim |-> 2, timestamp |-> 0],
   [type |-> "streak:changed", playerId |-> 1, streak |-> 2, previousStreak |-> 1]}

NextHud ==
  \/ \E e \in HudEvents, throttled \in BOOLEAN :
       commands < HudCommands /\ OnAnyEvent(e, throttled)
  \/ \E tm \in timeouts, slow \in SUBSET HudConns : Flush(tm, slow)
  \/ \E tm \in timeouts, slow \in SUBSET HudConns : PushAll(tm, slow)
  \/ \E c \in HudConns, widgets \in HudRequests, slow \in BOOLEAN :
       commands < HudCommands /\ WsHudSubscribe(c, widgets, slow)
  \/ \E c \in HudConns, widgets \in HudRequests :
       commands < HudCommands /\ WsHudUnsubscribe(c, widgets)
  \/ \E c \in HudConns : commands < HudCommands /\ WsCloseIdle(c)
  \/ \E d \in HudSteps : commands < HudCommands /\ Pass(d)

SpecHud == Init /\ [][NextHud]_vars

\* a timeout whose time has come fires: the event loop runs every due timer
Timeout ==
  \E tm \in timeouts, slow \in SUBSET HudConns : Flush(tm, slow) \/ PushAll(tm, slow)

SpecHudLive == Init /\ [][NextHud]_vars /\ WF_vars(Timeout)

\* Streaks: the bus delivers streak:changed events to the HudSystem, more of
\* them than the announcements buffer holds, and the flushes they ask for run.
StreakCommands == 6
\* [previousStreak, streak]: no threshold crossed, one crossed, several
\* crossed at once, a step above the last threshold and a reset
StreakPairs == {<<0, 1>>, <<1, 2>>, <<2, 3>>, <<1, 5>>, <<5, 10>>, <<10, 11>>, <<3, 0>>}
StreakEvents ==
  {[type |-> "streak:changed", playerId |-> 1, streak |-> p[2], previousStreak |-> p[1]] :
     p \in StreakPairs}

NextStreak ==
  \/ \E e \in StreakEvents : commands < StreakCommands /\ OnAnyEvent(e, FALSE)
  \/ \E tm \in timeouts : Flush(tm, {})
  \/ \E tm \in timeouts : PushAll(tm, {})

SpecStreak == Init /\ [][NextStreak]_vars

\* Match: the timeouts of the match system run one demo match after the other
\* while a client joins and other code calls startCountdown, startMatch and
\* endMatch with the id of a match or with an id no match has.
MatchCommands == 3
\* no demo match is created after this time
MatchHorizon == 400000
\* durationMs of a startMatch call (0: none given)
Durations == {0, DEMO_DURATION_MS}
MatchIds == DOMAIN matches \cup {1}

NextMatch ==
  \/ \E tm \in timeouts : now < MatchHorizon /\ CreateDemoMatch(tm)
  \/ \E tm \in timeouts : DemoCountdown(tm)
  \/ \E tm \in timeouts : CountdownOver(tm)
  \/ \E tm \in timeouts : DurationOver(tm)
  \/ \E tm \in timeouts : Cleanup(tm)
  \/ \E tm \in timeouts : PushAll(tm, {})
  \/ nextId = 1 /\ WsJoin("c1", 100)
  \/ \E id \in MatchIds :
       commands < MatchCommands /\ CallStartCountdown(id, DEMO_COUNTDOWN_MS)
  \/ \E id \in MatchIds, d \in Durations :
       commands < MatchCommands /\ CallStartMatch(id, d)
  \/ \E id \in MatchIds : commands < MatchCommands /\ CallEndMatch(id)

SpecMatch == Init /\ [][NextMatch]_vars

\* Round trip: events are recorded in a journal, the journal is restored from
\* its JSON at some point, and further events are recorded in both.
RoundTripEntries == 3
RoundTripEvents ==
  {[type |-> "player:join", playerId |-> 1],
   [type |-> "player:kill", killerId |-> 1, victimId |-> 2, assistIds |-> <<3>>],
   [type |-> "damage:applied", targetId |-> 2, source |-> 1],
   [type |-> "match:created", id |-> 7]}

NextRoundTrip ==
  \/ \E e \in RoundTripEvents : commands < RoundTripEntries /\ BookRecord(e)
  \/ Restore
  \/ \E d \in {10} : commands < RoundTripEntries /\ Pass(d)

SpecRoundTrip == Init /\ [][NextRoundTrip]_vars

\* Journal: the journal system alone.  Events reach it from the bus, the
\* auto-save interval fires, pending saves complete in any order, and a
\* signal stops the system; process.exit(0) follows the return of stop().
\* A match is created only when none is open, and ended only when open.
JournalCommands == 3
JournalMatches == {1, 2}
CreatedMatches == {journals[i].metadata.matchId : i \in DOMAIN journals} \ {0}
JournalEvents ==
  {[type |-> "player:join", playerId |-> 1], [type |-> "tick:post"]}
    \cup (IF openMatch # 0 THEN {[type |-> "match:ended", id |-> openMatch]}
          ELSE {[type |-> "match:created", id |-> m] :
                  m \in {n \in JournalMatches :
                           /\ n \notin CreatedMatches
                           /\ \A o \in JournalMatches \ CreatedMatches : n <= o}})

NextJournal ==
  \/ \E k \in BagToSet(tasks) : ~stopDone /\ Resume(k)
  \/ \E e \in JournalEvents :
       ~stopDone /\ commands < JournalCommands /\ JournalOnEvent(e)
  \/ ~stopDone /\ commands < JournalCommands /\ AutoSave
  \/ ~stopDone /\ commands < JournalCommands /\ JournalStop

SpecJournal == Init /\ [][NextJournal]_vars

\* Faulty: as Journal, and one of the saves fails.
NextFaulty ==
  \/ NextJournal
  \/ \E k \in BagToSet(tasks) : ~stopDone /\ failed = {} /\ SaveFails(k)

SpecFaulty == Init /\ [][NextFaulty]_vars

\* Move: one client.  A haste pickup appears before it joins at the place of
\* the pickup; it sends cmd:move with one direction, a direction within
\* EPSILON of it, or the zero direction; damage:applied events kill it and it
\* respawns (it is hurt only once it has moved).  The clock ticks by a frame or
\* by the duration of a buff (which is the respawn delay as well).
MoveTicks == 5
MoveCommands == 6
MoveSet == {[x |-> DIR_UNIT, y |-> 0], [x |-> DIR_UNIT + 5, y |-> 5], [x |-> 0, y |-> 0]}
NextMove ==
  \/ ticks = 0 /\ Tick(MAX_DT_MS, 0, "haste")
  \/ \E d \in {MAX_DT_MS, BUFF_DURATION} :
       ticks >= 1 /\ ticks < MoveTicks /\ Tick(d, 0, "heal")
  \/ ticks >= 1 /\ JoinAt(1, 220)
  \/ \E dir \in MoveSet : commands < MoveCommands /\ Bound("c1") /\ WsMove("c1", dir)
  \/ \E k \in DamageKinds :
       /\ commands < MoveCommands /\ Bound("c1") /\ ~Dead("c1")
       /\ lastMoveDir # EmptyMap
       /\ BusDamage(1, 1, k)
  \/ commands < MoveCommands /\ Dead("c1") /\ WsRespawn("c1", 340)

SpecMove == Init /\ [][NextMove]_vars

\* Dash: one client dashes whenever the skill is off cooldown.  The clock ticks
\* by a frame of 100 ms or by a stalled frame of 300 ms, longer than the dash;
\* the bound on the ticks leaves room for three frames of 100 ms after the last
\* cast, which see a dash begin and end.
DashTicks == 7
DashCommands == 3
DashSteps == {MAX_DT_MS, 3 * MAX_DT_MS}
DashTick ==
  \/ \E d \in DashSteps : ticks < DashTicks - 3 /\ Joined(1) /\ Tick(d, 0, "heal")
  \/ ticks < DashTicks /\ Joined(1) /\ Tick(MAX_DT_MS, 0, "heal")
NextDash ==
  \/ DashTick
  \/ JoinAt(1, 100)
  \/ commands < DashCommands /\ ticks < DashTicks - 3 /\ Ready("c1", "skill:dash")
       /\ WsCast("c1", "skill:dash")

\* setInterval keeps calling frame(): a frame that is due is eventually run
\* (the steps of DashTick are those that change ticks, and DashTick is enabled
\* exactly when DashFrameDue holds).
DashFrameDue == ticks < DashTicks /\ Joined(1)
DashFrame == DashFrameDue /\ ticks' = ticks + 1
SpecDash == Init /\ [][NextDash]_vars /\ WF_ticks(DashFrame)

\* Rejoin: two clients send cmd:join, more than once if they like, move and
\* close their connections while the clock ticks.
RejoinTicks == 2
RejoinCommands == 3
RejoinConns == {"c1", "c2"}
NextRejoin ==
  \/ ticks < RejoinTicks /\ Tick(MAX_DT_MS, 0, "heal")
  \/ \E c \in RejoinConns : WsJoin(c, 100 + 120 * (nextId - 1))
  \/ \E c \in RejoinConns, dir \in MoveDirs :
       commands < RejoinCommands /\ Bound(c) /\ WsMove(c, dir)
  \/ \E c \in RejoinConns : commands < RejoinCommands /\ WsClose(c)

SpecRejoin == Init /\ [][NextRejoin]_vars

\* Wall: one client, 50 units above an obstacle, turns and fires at it.  The
\* clock keeps ticking (setInterval): the bound on the ticks leaves room for
\* two long frames after the last cast, which outlast every projectile.
WallTicks == 6
WallCommands == 4
WallStep == ROCKET_LIFETIME \div 2
WallTick ==
  \/ ticks < WallTicks - 2 /\ Joined(1) /\ Tick(MAX_DT_MS, 0, "heal")
  \/ ticks < WallTicks /\ Joined(1) /\ Tick(WallStep, 0, "heal")
NextWall ==
  \/ WallTick
  \/ nextId = 1 /\ WsJoinPos("c1", WallSpawn)
  \/ \E skill \in {"skill:shoot", "skill:shotgun", "skill:rocket"} :
       commands < WallCommands /\ ticks < WallTicks - 2 /\ Ready("c1", skill)
         /\ WsCast("c1", skill)
  \/ \E dir \in AimDirs :
       commands < WallCommands /\ Bound("c1")
         /\ players[connToPlayer["c1"]].faceTarget = 0 /\ WsAim("c1", dir)

\* setInterval keeps calling frame(): a frame that is due is eventually run.
\* Of the steps of NextWall exactly those of WallTick change ticks, and
\* WallTick is enabled exactly when WallFrameDue holds, so the condition below
\* is weak fairness of WallTick.
WallFrameDue == ticks < WallTicks /\ Joined(1)
WallFrame == WallFrameDue /\ ticks' = ticks + 1
SpecWall == Init /\ [][NextWall]_vars /\ WF_ticks(WallFrame)




\* ===================================================================== claims
Ids == DOMAIN players

\* events of type ty among the events the last handler emitted
Emitted(ty) == {i \in 1..Len(emitted) : emitted[i].type = ty}

\* C1: every player has 0 <= hp <= 100, and hp = 0 exactly when isDead.
C1_HpInRangeAndZeroIffDead ==
  \A id \in Ids :
    /\ players[id].hp >= 0
    /\ players[id].hp <= PLAYER_HP * 100
    /\ (players[id].hp = 0 <=> players[id].isDead)

\* ---- C2
\* the log entries of the last step in which a damage:applied event of another
\* player brought a live target to hp 0
Killings ==
  {i \in 1..Len(dmgLog) :
     LET r == dmgLog[i]
     IN  /\ r.e.targetId \in DOMAIN r.pre
         /\ ~r.pre[r.e.targetId].isDead
         /\ r.pre[r.e.targetId].hp > 0
         /\ r.post[r.e.targetId].hp = 0
         /\ r.e.source \in DOMAIN r.pre
         /\ r.e.source # r.e.targetId}

\* what the listener emitted, the knockback notice of the blow aside
KillEvents(r) == SelectSeq(r.ev, LAMBDA x : x.type # "knockback:applied")

\* the players whose assists the listener incremented
Assisters(r) ==
  {a \in DOMAIN r.pre : r.post[a].stats.assists > r.pre[a].stats.assists}

\* C2: a damage:applied event of another player that brings a live target to
\* hp 0 makes the listener emit, in this order and nothing else: streak:changed
\* for the killer, player:kill, feed:entry, score:update for the killer, one
\* score:update for each assister, score:update for the victim, player:die for
\* the victim.
C2_KillEventOrder ==
  \A i \in Killings :
    LET r == dmgLog[i]
        ev == KillEvents(r)
        killer == r.e.source
        victim == r.e.targetId
        n == Cardinality(Assisters(r))
    IN  /\ Len(ev) = 6 + n
        /\ ev[1].type = "streak:changed" /\ ev[1].playerId = killer
        /\ ev[2].type = "player:kill" /\ ev[2].killerId = killer
        /\ ev[2].victimId = victim
        /\ ev[3].type = "feed:entry" /\ ev[3].killer = killer /\ ev[3].victim = victim
        /\ ev[4].type = "score:update" /\ ev[4].playerId = killer
        /\ \A k \in 5..(4 + n) : ev[k].type = "score:update"
        /\ {ev[k].playerId : k \in 5..(4 + n)} = Assisters(r)
        /\ ev[5 + n].type = "score:update" /\ ev[5 + n].playerId = victim
        /\ ev[6 + n].type = "player:die" /\ ev[6 + n].playerId = victim

\* a kill with two assisters has happened
C2_Witness ==
  \E i \in Killings : Cardinality(Assisters(dmgLog[i])) = 2

\* ---- C3
\* the players in the world at the blow, other than killer and victim, whose
\* damage on the victim took effect in the victim's life that this blow ends,
\* no more than assistTimeWindow ms before the blow
Contributors(r) ==
  {d.source : d \in {x \in Get(r.lifePre, r.e.targetId, {}) :
                       /\ x.source \in DOMAIN r.pre
                       /\ x.source # r.e.source
                       /\ x.source # r.e.targetId
                       /\ r.at - x.at <= ASSIST_TIME_WINDOW}}

\* C3: on a kill, assistIds lists exactly the contributors, each once; each of
\* them has its assists incremented by 1 and no other player's assists change.
C3_AssistIdsExact ==
  \A i \in Killings :
    LET r == dmgLog[i]
        ids == KillEvents(r)[2].assistIds
    IN  /\ {ids[k] : k \in 1..Len(ids)} = Contributors(r)
        /\ Len(ids) = Cardinality(Contributors(r))
        /\ \A a \in DOMAIN r.pre :
             r.post[a].stats.assists =
               r.pre[a].stats.assists + (IF a \in Contributors(r) THEN 1 ELSE 0)

\* a kill with an assister, after the victim took damage in the same life from
\* a third player more than assistTimeWindow ms earlier
C3_Witness ==
  \E i \in Killings :
    LET r == dmgLog[i]
    IN  /\ Contributors(r) # {}
        /\ \E x \in Get(r.lifePre, r.e.targetId, {}) :
             /\ x.source \notin Contributors(r) \cup {r.e.source, r.e.targetId}
             /\ r.at - x.at > ASSIST_TIME_WINDOW

\* ---- C4
\* the log entries of the last step in which a player died of damage whose
\* source is the player itself
SelfKills ==
  {i \in 1..Len(dmgLog) :
     LET r == dmgLog[i]
     IN  /\ r.e.targetId \in DOMAIN r.pre
         /\ ~r.pre[r.e.targetId].isDead
         /\ r.post[r.e.targetId].isDead
         /\ r.e.source = r.e.targetId}

\* C4: a player that dies of its own damage gets no kill credit: its kills are
\* unchanged, its currentStreak is 0 after the death, and no streak:changed,
\* player:kill or feed:entry names it as its own killer.
C4_NoSelfKillCredit ==
  \A i \in SelfKills :
    LET r == dmgLog[i]
        id == r.e.targetId
    IN  /\ r.post[id].stats.kills = r.pre[id].stats.kills
        /\ r.post[id].stats.currentStreak = 0
        /\ \A k \in 1..Len(r.ev) :
             /\ ~(r.ev[k].type = "streak:changed" /\ r.ev[k].playerId = id)
             /\ ~(r.ev[k].type = "player:kill" /\ r.ev[k].killerId = id)
             /\ ~(r.ev[k].type = "feed:entry" /\ r.ev[k].killer = id)

\* ---- C5
\* player:die events for id among the events ev
DieEvents(ev, id) ==
  {k \in 1..Len(ev) : ev[k].type = "player:die" /\ ev[k].playerId = id}

\* what a step does to the deaths of the players, and what the damage:applied
\* events handled in it did
C5_Step ==
  /\ \A id \in DOMAIN players \cap DOMAIN players' :
       players'[id].stats.deaths =
         players[id].stats.deaths
           + (IF ~players[id].isDead /\ players'[id].isDead THEN 1 ELSE 0)
  /\ \A i \in 1..Len(dmgLog') :
       LET r == dmgLog'[i]
           id == r.e.targetId
       IN  id \in DOMAIN r.pre =>
             /\ ~r.pre[id].isDead /\ r.post[id].isDead =>
                  /\ r.post[id].stats.deaths = r.pre[id].stats.deaths + 1
                  /\ Cardinality(DieEvents(r.ev, id)) = 1
             /\ ~(~r.pre[id].isDead /\ r.post[id].isDead) =>
                  /\ r.post[id].stats.deaths = r.pre[id].stats.deaths
                  /\ DieEvents(r.ev, id) = {}
             /\ r.pre[id].isDead =>
                  /\ r.post = r.pre
                  /\ r.rdPost = r.rdPre
                  /\ r.ev = <<>>

\* C5: whatever damage:applied events reach a player, a life ends with exactly
\* one alive-to-dead transition: deaths grows by exactly 1 and player:die is
\* emitted exactly once, and a damage:applied event on the dead player changes
\* nothing and emits nothing.
C5_OneDeathPerLife == [][C5_Step]_vars

\* a damage:applied event has reached a dead player
C5_Witness ==
  \E i \in 1..Len(dmgLog) :
    /\ dmgLog[i].e.targetId \in DOMAIN dmgLog[i].pre
    /\ dmgLog[i].pre[dmgLog[i].e.targetId].isDead

\* a respawned player has taken damage in its second life
SecondLifeDamage ==
  \E id \in Ids : /\ players[id].stats.deaths = 1
                  /\ ~players[id].isDead
                  /\ players[id].hp < PLAYER_HP * 100

\* ---- C6
\* the log entries of the last step whose target had i-frames
Shielded ==
  {i \in 1..Len(dmgLog) :
     LET r == dmgLog[i]
     IN  /\ r.e.targetId \in DOMAIN r.pre
         /\ r.pre[r.e.targetId].iframeUntil > r.at}

\* C6: a damage:applied event on a target with iframeUntil > now leaves its hp,
\* damageTaken, deaths and isDead as they were, records nothing in
\* recentDamage, and leads to no player:die or player:kill.
C6_IframesBlockDamage ==
  \A i \in Shielded :
    LET r == dmgLog[i]
        id == r.e.targetId
    IN  /\ r.post[id].hp = r.pre[id].hp
        /\ r.post[id].stats.damageTaken = r.pre[id].stats.damageTaken
        /\ r.post[id].stats.deaths = r.pre[id].stats.deaths
        /\ r.post[id].isDead = r.pre[id].isDead
        /\ r.rdPost = r.rdPre
        /\ \A k \in 1..Len(r.ev) : r.ev[k].type \notin {"player:die", "player:kill"}

\* damage has reached a live, wounded player during its i-frames
C6_Witness ==
  \E i \in Shielded :
    LET p == dmgLog[i].pre[dmgLog[i].e.targetId]
    IN  ~p.isDead /\ p.hp < PLAYER_HP * 100 /\ p.dashUntil > dmgLog[i].at

\* ---- C7
\* the step handles a cmd:move, cmd:aim or cmd:cast message of a connection
\* whose player is dead
DeadCommand ==
  /\ last'.op \in {"cmd:move", "cmd:aim", "cmd:cast"}
  /\ last'.id \in DOMAIN players
  /\ players[last'.id].isDead

C7_Step ==
  DeadCommand =>
    LET p == players[last'.id]
        q == players'[last'.id]
    IN  /\ q.vel = p.vel
        /\ q.face = p.face
        /\ q.faceTarget = p.faceTarget
        /\ q.cd = p.cd
        /\ q.stats.shotsFired = p.stats.shotsFired
        /\ projectiles' = projectiles
        /\ \A k \in 1..Len(emitted') :
             emitted'[k].type \notin {"player:aimed", "projectile:spawned", "dash:started"}

\* C7: a cmd:move, cmd:aim or cmd:cast message of a dead player is dropped: its
\* vel, face, faceTarget, cooldowns and shotsFired are unchanged, no projectile
\* is added and no player:aimed, projectile:spawned or dash:started is emitted.
C7_DeadCommandsDropped == [][C7_Step]_vars

\* ---- C8
\* the step handles a cmd:respawn message
RespawnCommand == last'.op = "cmd:respawn" /\ last'.id \in DOMAIN players

C8_Step ==
  RespawnCommand =>
    LET p == players[last'.id]
    IN  \/ p.isDead /\ now - p.diedAt >= RESPAWN_DELAY
        \/ /\ players'[last'.id] = p
           /\ \A k \in 1..Len(emitted') : emitted'[k].type # "player:join"

\* C8: a cmd:respawn is honoured only if the player is dead and at least
\* 5000 ms have passed since it died; otherwise the player's state is
\* unchanged and no player:join is emitted.
C8_RespawnOnlyWhenDue == [][C8_Step]_vars

\* a respawn was asked for a dead player and refused
C8_Witness ==
  /\ last.op = "cmd:respawn"
  /\ last.id \in Ids
  /\ players[last.id].isDead
  /\ Emitted("player:join") = {}

\* a respawn was honoured
RespawnHonoured == last.op = "cmd:respawn" /\ Emitted("player:join") # {}

\* ---- C9
\* the step is an accepted respawn
AcceptedRespawn ==
  /\ RespawnCommand
  /\ \E k \in 1..Len(emitted') : emitted'[k].type = "player:join"

C9_Step ==
  AcceptedRespawn =>
    LET p == players[last'.id]
        q == players'[last'.id]
    IN  /\ q.hp = PLAYER_HP * 100
        /\ ~q.isDead
        /\ q.cd = EmptyMap
        /\ ~HasKnockback(q, now')
        /\ ~HasIframes(q, now')
        /\ ~IsDashing(q, now')
        /\ ~HasHaste(q, now')
        /\ ~HasShield(q, now')
        /\ q.stats.kills = p.stats.kills
        /\ q.stats.deaths = p.stats.deaths
        /\ q.stats.assists = p.stats.assists
        /\ q.stats.bestStreak = p.stats.bestStreak

\* C9: right after an accepted respawn the player is alive with hp 100, an
\* empty cooldown map and no active knockback, i-frames, dash, haste or shield,
\* and its kills, deaths, assists and bestStreak are what they were.
C9_RespawnState == [][C9_Step]_vars

\* ---- C10
\* player id is dead when the k-th event of the tick is emitted: it was dead
\* before the tick or its player:die came earlier in the tick
DeadBy(id, k) ==
  \/ players[id].isDead
  \/ \E j \in 1..(k - 1) : emitted'[j].type = "player:die" /\ emitted'[j].playerId = id

C10_Step ==
  last'.op = "tick" =>
    \A id \in DOMAIN players :
      /\ players[id].isDead =>
           /\ players'[id].pos = players[id].pos
           /\ players'[id].hp = players[id].hp
           /\ players'[id].hasteUntil \in {players[id].hasteUntil, 0}
           /\ players'[id].shieldUntil \in {players[id].shieldUntil, 0}
           /\ \A pk \in {pickups[j] : j \in 1..Len(pickups)} :
                Within(players[id].pos, pk.pos, PLAYER_PICK_RADIUS) =>
                  \E j \in 1..Len(pickups') : pickups'[j] = pk
      /\ \A k \in 1..Len(emitted') :
           DeadBy(id, k) =>
             /\ ~(emitted'[k].type = "player:move" /\ emitted'[k].playerId = id)
             /\ ~(emitted'[k].type = "pickup:collected" /\ emitted'[k].by = id)
             /\ ~(emitted'[k].type = "buff:applied" /\ emitted'[k].playerId = id)

\* C10: a dead player is frozen: over a tick its position does not change, no
\* player:move is emitted for it, and it collects no pickup (none within 20
\* units of it is removed, no pickup:collected or buff:applied names it, its
\* hp, hasteUntil and shieldUntil are not set).
C10_DeadIsFrozen == [][C10_Step]_vars

\* the part of C10 about movement alone
DeadStaysPut ==
  [][last'.op = "tick" =>
       \A id \in DOMAIN players :
         /\ players[id].isDead => players'[id].pos = players[id].pos
         /\ \A k \in 1..Len(emitted') :
              DeadBy(id, k) =>
                ~(emitted'[k].type = "player:move" /\ emitted'[k].playerId = id)]_vars

\* ---- C11
\* the step handles a cmd:cast of a live player
LiveCast ==
  /\ last'.op = "cmd:cast"
  /\ last'.id \in DOMAIN players
  /\ ~players[last'.id].isDead

\* the cast was accepted: a shot was counted or a dash began
AcceptedCast ==
  \/ players'[last'.id].stats.shotsFired # players[last'.id].stats.shotsFired
  \/ \E k \in 1..Len(emitted') : emitted'[k].type = "dash:started"

C11_Step ==
  /\ LiveCast =>
       LET p == players[last'.id]
           q == players'[last'.id]
           skill == last'.skill
       IN  /\ AcceptedCast =>
                /\ skill \in DOMAIN p.cd =>
                     now - (p.cd[skill] - Cooldown(skill)) >= Cooldown(skill)
                /\ q.cd = Put(p.cd, skill, now + Cooldown(skill))
           /\ OnCooldown(p, skill, now) =>
                /\ q = p
                /\ projectiles' = projectiles
                /\ emitted' = <<[type |-> "cmd:cast", playerId |-> last'.id,
                                 skill |-> skill]>>
  /\ last'.op \in {"tick", "cmd:move", "cmd:aim"} =>
       \A id \in DOMAIN players : id \in DOMAIN players' /\ players'[id].cd = players[id].cd

\* C11: two accepted casts of one skill by one player are at least the skill's
\* cooldown apart (cd[skill] is the time of the last accepted cast plus the
\* cooldown, and only a cast writes it); a cast while cd[skill] > now changes
\* nothing of the player, adds no projectile and emits nothing.
C11_CooldownSpacing == [][C11_Step]_vars

\* a cast has just been dropped for its cooldown
C11_Witness ==
  /\ last.op = "cmd:cast"
  /\ Len(emitted) = 1
  /\ last.id \in DOMAIN players
  /\ OnCooldown(players[last.id], last.skill, now)

\* a second shot accepted exactly one cooldown after the first
SecondCast ==
  /\ last.op = "cmd:cast"
  /\ last.skill = "skill:shoot"
  /\ players[last.id].stats.shotsFired = 2
  /\ players[last.id].cd["skill:shoot"] = now + CD_SHOOT

\* ---- C12
\* the projectiles the step removes from the world
Removed ==
  {projectiles[k] : k \in 1..Len(projectiles)}
    \ {pr \in {projectiles[k] : k \in 1..Len(projectiles)} :
         \E j \in 1..Len(projectiles') : projectiles'[j].id = pr.id}

\* how many projectile:despawned the step emits for projectile id i
Despawns(i) ==
  Cardinality({k \in 1..Len(emitted') :
                 emitted'[k].type = "projectile:despawned" /\ emitted'[k].id = i})

\* how many damage:applied the step emits for shots of the kind by the owner
ShotDamages(owner, kind) ==
  Cardinality({k \in 1..Len(emitted') :
                 /\ emitted'[k].type = "damage:applied"
                 /\ emitted'[k].source = owner
                 /\ emitted'[k].weapon = kind})

C12_Step ==
  /\ \A i \in 1..MaxProjectiles :
       Despawns(i) = IF \E pr \in Removed : pr.id = i THEN 1 ELSE 0
  /\ \A owner \in 1..MaxPlayers, kind \in {"bullet", "pellet"} :
       ShotDamages(owner, kind)
         <= Cardinality({pr \in Removed : pr.owner = owner /\ pr.kind = kind})

\* C12: a projectile is consumed once: the step that removes it emits exactly
\* one projectile:despawned for its id (and no other step emits one), and the
\* bullets and pellets of a player that a step removes yield at most one
\* damage:applied each.
C12_ConsumedOnce == [][C12_Step]_vars

\* ---- C13
\* projectile id i is in the world
InWorld(i) == \E k \in 1..Len(projectiles) : projectiles[k].id = i

\* a tick at time prev' leaves no projectile of age >= lifetime in the world,
\* and a rocket that expires in it explodes
C13_Step ==
  last'.op = "tick" =>
    \A k \in 1..Len(projectiles) :
      prev' - projectiles[k].spawnTime >= Lifetime(projectiles[k]) =>
        /\ \A j \in 1..Len(projectiles') : projectiles'[j].id # projectiles[k].id
        /\ projectiles[k].kind = "rocket" =>
             \E j \in 1..Len(emitted') : emitted'[j].type = "explosion:spawned"

C13_Bounces ==
  \A k \in 1..Len(projectiles) :
    projectiles[k].bounceCount <= MaxBounces(projectiles[k])

\* C13: every projectile is eventually removed while the clock ticks (a world
\* that holds projectiles becomes empty): the first tick at which its age >=
\* lifetime removes it (a rocket explodes), and its bounces never exceed
\* maxBounces.
C13_ProjectilesEnd ==
  /\ [][C13_Step]_vars
  /\ []C13_Bounces
  /\ (projectiles # <<>>) ~> (projectiles = <<>>)

\* a rocket fired along y = 150 has expired in flight and exploded
C13_Witness ==
  /\ last.op = "tick"
  /\ \E k \in 1..Len(emitted) :
       /\ emitted[k].type = "explosion:spawned"
       /\ emitted[k].pos.y = WallSpawn.y

\* a bullet has bounced off the obstacle
Bounced == \E k \in 1..Len(projectiles) : projectiles[k].bounceCount > 0

\* ---- C14
\* pos is where collideProjectile leaves a projectile it pushed out of an obstacle
OnWall(pos) ==
  \E k \in 1..Len(Obstacles) :
    LET ob == Obstacles[k]
    IN  \/ pos.x \in {ob.x - 1, ob.x + ob.w + 1} /\ pos.y >= ob.y /\ pos.y <= ob.y + ob.h
        \/ pos.y \in {ob.y - 1, ob.y + ob.h + 1} /\ pos.x >= ob.x /\ pos.x <= ob.x + ob.w

\* the explosions the tick:pre listener emitted for rockets that hit a wall
WallExplosions ==
  {k \in 1..Len(emitted') :
     /\ emitted'[k].type = "explosion:spawned"
     /\ OnWall(emitted'[k].pos)
     /\ \E j \in (k + 1)..Len(emitted') : emitted'[j].type = "tick:post"}

C14_Step ==
  last'.op = "tick" =>
    \A k \in WallExplosions, id \in DOMAIN players :
      (/\ ~players[id].isDead
       /\ Within(players'[id].pos, emitted'[k].pos, EXPLOSION_RADIUS)) =>
        /\ \E j \in 1..Len(emitted') :
             /\ emitted'[j].type = "damage:applied"
             /\ emitted'[j].targetId = id
             /\ emitted'[j].weapon = "explosion"
        /\ \E j \in 1..Len(emitted') :
             /\ emitted'[j].type = "knockback:applied"
             /\ emitted'[j].targetId = id

\* C14: when a rocket explodes against a wall, every live player within the
\* explosion radius of the impact gets a damage:applied with weapon explosion
\* and a knockback:applied.
C14_WallExplosionHurts == [][C14_Step]_vars

\* ---- C15
\* where the events of the given type are in what the last handler emitted
Places(type) == {k \in 1..Len(emitted') : emitted'[k].type = type}

\* events only the tick:pre listeners emit, events only the tick:post listeners emit
PreOnly == {"player:move", "player:aimed", "projectile:moved", "projectile:bounced",
            "dash:ended"}
PostOnly == {"damage:applied", "knockback:applied", "pickup:spawned", "pickup:collected",
             "buff:applied", "buff:expired", "player:kill"}

C15_Step ==
  /\ last'.op = "tick" =>
       /\ running /\ intervals # {}
       /\ Places("tick:pre") = {1}
       /\ \E k \in 2..Len(emitted') :
            /\ Places("tick:post") = {k}
            /\ emitted'[k].dt = emitted'[1].dt
            /\ \A j \in 1..Len(emitted') :
                 /\ emitted'[j].type \in PreOnly => j < k
                 /\ emitted'[j].type \in PostOnly => j > k
       /\ emitted'[1].dt >= 0 /\ emitted'[1].dt <= MAX_DT_MS
       /\ emitted'[1].dt = MAX_DT_MS \/ emitted'[1].dt = prev' - prev
  /\ last'.op # "tick" => Places("tick:pre") \cup Places("tick:post") = {}
  /\ last'.op = "clock:start" /\ running => intervals' = intervals
  /\ last'.op = "clock:stop" => intervals' = {}
  /\ Cardinality(intervals') <= 1
  /\ ~running' => intervals' = {}

\* C15: a clock tick emits one tick:pre, then one tick:post with the same dt,
\* 0 <= dt <= 100 ms whatever time has passed; what the tick:pre listeners emit
\* comes before tick:post; start() on a running clock creates no second
\* interval, and a stopped clock has no interval and does not tick.
C15_ClockTicks == [][C15_Step]_vars

\* the clock has ticked on time (dt below its clamp), moving a player and a
\* projectile before tick:post
C15_Witness ==
  /\ last.op = "tick"
  /\ emitted[1].dt = TICK_MS
  /\ \E k \in 1..Len(emitted) : emitted[k].type = "projectile:moved"
  /\ \E k \in 1..Len(emitted) : emitted[k].type = "player:move"

\* start() was called while the clock was running
StartedTwice == last.op = "clock:start" /\ running /\ Cardinality(intervals) = 1 /\ ticks > 0

\* ---- C16
\* C16: when a listener throws, the error does not reach the caller of emit
\* and every listener registered for the event type still runs.
C16_ListenerErrorsContained ==
  last.op = "emit" => ~propagated /\ ran = Listeners(last.type)

\* ---- C17
\* C17: clients observe events in the order of the emit calls: a player:kill
\* or feed:entry reaches them after the damage:applied on the victim whose
\* handling emitted it.
C17_DamageBeforeKill ==
  \A k \in 1..Len(sent) :
    /\ sent[k].type = "player:kill" =>
         \E j \in 1..(k - 1) :
           sent[j].type = "damage:applied" /\ sent[j].targetId = sent[k].victimId
    /\ sent[k].type = "feed:entry" =>
         \E j \in 1..(k - 1) :
           sent[j].type = "damage:applied" /\ sent[j].targetId = sent[k].victim

\* ---- C18
CmdOps == {"cmd:move", "cmd:aim", "cmd:cast", "cmd:respawn"}

\* what the world holds for player q
StateOf(q) ==
  [player |-> Get(players, q, 0), dir |-> Get(lastMoveDir, q, 0),
   until |-> Get(deadUntil, q, 0)]

\* the same, after the step
StateOfNext(q) ==
  [player |-> Get(players', q, 0), dir |-> Get(lastMoveDir', q, 0),
   until |-> Get(deadUntil', q, 0)]

C18_Step ==
  /\ last'.op \in CmdOps =>
       /\ connToPlayer[last'.conn] # 0
       /\ last'.id = connToPlayer[last'.conn]
       /\ \A k \in 1..Len(emitted') :
            emitted'[k].type \in CmdOps =>
              emitted'[k].playerId = connToPlayer[last'.conn]
       /\ \A q \in 1..MaxPlayers :
            q # connToPlayer[last'.conn] => StateOfNext(q) = StateOf(q)
       /\ \A pid \in ClaimedIds :
            \E msg \in Messages :
              /\ msg.type = last'.op
              /\ msg.playerId = pid
              /\ WsMessage(last'.conn, msg)
  /\ last'.op = "dropped" =>
       /\ connToPlayer[last'.conn] = 0
       /\ emitted' = <<>>
       /\ projectiles' = projectiles
       /\ \A q \in 1..MaxPlayers : StateOfNext(q) = StateOf(q)

\* C18: a command message is handled for the player bound to its connection,
\* whatever playerId it carries: the step is the same for every playerId, it
\* leaves the players of other connections as they were, and a message on a
\* connection that has not joined changes nothing.
C18_BoundIdOnly == [][C18_Step]_vars

\* with two players in the world, a cmd:move on the first one's connection
\* has been handled
C18_Witness ==
  /\ last.op = "cmd:move"
  /\ last.conn = "c1"
  /\ connToPlayer["c2"] # 0
  /\ DOMAIN lastMoveDir = {connToPlayer["c1"]}

\* a message on the connection that has not joined has been dropped
DroppedUnjoined == last.op = "dropped" /\ last.conn = "c3"

\* ---- C19
\* C19: when the connection of a joined player has closed, cmd:leave has been
\* emitted for its id and the server holds nothing for that id: no player, no
\* binding, no entry in deadUntil, lastMoveDir, lastBroadcastPos, lastFace,
\* lastHBPos or dashing.
C19_NothingLeftAfterClose ==
  last.op = "close" =>
    /\ \E k \in 1..Len(emitted) :
         emitted[k].type = "cmd:leave" /\ emitted[k].playerId = last.id
    /\ last.id \notin DOMAIN players
    /\ \A c \in Conns : connToPlayer[c] # last.id
    /\ last.id \notin DOMAIN deadUntil
    /\ last.id \notin DOMAIN lastMoveDir
    /\ last.id \notin DOMAIN lastBroadcastPos
    /\ last.id \notin DOMAIN lastFace
    /\ last.id \notin DOMAIN lastHBPos
    /\ last.id \notin dashing

\* ---- C20
\* the statistics the claim names
Tally(p) ==
  [kills |-> p.stats.kills, deaths |-> p.stats.deaths, assists |-> p.stats.assists,
   currentStreak |-> p.stats.currentStreak, bestStreak |-> p.stats.bestStreak]

C20_Step ==
  last'.op = "close" =>
    /\ last'.id \in DOMAIN players
    /\ last'.id \notin DOMAIN players'
    /\ \E k \in 1..Len(emitted') :
         emitted'[k].type = "player:leave" /\ emitted'[k].playerId = last'.id
    /\ \A q \in DOMAIN players' : Tally(players'[q]) = Tally(players[q])

\* C20: handling cmd:leave removes the player from the world, emits
\* player:leave for its id and changes nobody's kills, deaths, assists,
\* currentStreak or bestStreak.
C20_LeaveIsNotDeath == [][C20_Step]_vars

\* C21: a hud update that a flush (or pushAll) sends goes only to open
\* connections whose subscription set holds the widget key when it is sent, so
\* that a connection that unsubscribed from a widget or closed gets no further
\* update for it; the snapshots a cmd:hud:subscribe pushes go only to the
\* connection that asked and only for allowed widget keys it named.
C21_OnlySubscribers ==
  \A m \in hudSent :
    /\ m.key \in {"scoreboard", "match", "feed", "streaks", "announcements"}
    /\ m.via \in {"flush", "pushAll"} =>
         /\ m.conn \notin closed
         /\ m.conn \in DOMAIN hudSubs
         /\ m.key \in hudSubs[m.conn]
    /\ m.via = "initial" =>
         /\ last.op = "cmd:hud:subscribe"
         /\ m.conn = last.conn
         /\ m.key \in last.widgets

\* a flush sent c1 an update of a widget that c2, open and holding a
\* subscription set, is not subscribed to
C21_Witness ==
  /\ last.op = "flush"
  /\ "c2" \notin closed
  /\ "c2" \in DOMAIN hudSubs
  /\ \E m \in hudSent : m.conn = "c1" /\ m.key \notin hudSubs["c2"]

\* the subscribers of key that can take a message: open, subscribed and
\* outside the set slow of clients with too much buffered
Takers(key, slow) ==
  {c \in {"c1", "c2", "c3", "c4"} :
     c \notin closed /\ c \notin slow /\ c \in DOMAIN hudSubs /\ key \in hudSubs[c]}

C22_Step ==
  /\ \A k \in dirty \ dirty' :
       /\ last'.op = "flush"
       /\ k \in last'.keys
       /\ \A c \in Takers(k, last'.slow) : \E m \in hudSent' : m.conn = c /\ m.key = k
  /\ last'.op = "flush" => dirty' = {} /\ last'.keys = dirty
  /\ last'.op = "hud:event" => dirty \subseteq dirty'

\* while a widget is dirty a flush is scheduled
C22_Scheduled ==
  dirty # {} => flushing /\ \E tm \in timeouts : tm.fn = "flush"

C23_UrgentFlushedAtOnce ==
  \A m \in hudSent :
    m.via = "flush" /\ m.key \in {"feed", "announcements"} =>
      \A mk \in m.marks :
        mk.type \in {"feed:entry", "streak:changed"} =>
          m.timer.delay = 0 /\ m.timer.at = mk.at

\* the thresholds a streak:changed event crosses: previousStreak < t <= streak
CrossedBy(e) == {t \in {2, 3, 5, 7, 10} : e.previousStreak < t /\ t <= e.streak}

CategoryAt(t) ==
  CASE t = 2 -> "double_kill" [] t = 3 -> "killing_spree" [] t = 5 -> "unstoppable"
    [] t = 7 -> "rampage" [] t = 10 -> "legendary"

Largest(T) == CHOOSE t \in T : \A u \in T : u <= t

C24_Step ==
  /\ Len(announcements') <= 5
  /\ (/\ last'.op = "hud:event"
      /\ last'.e.type = "streak:changed"
      /\ last'.e.previousStreak < last'.e.streak) =>
       IF CrossedBy(last'.e) # {}
       THEN LET n == Len(announcements')
                gone == Len(announcements) + 1 - n
            IN  /\ n >= 1
                /\ gone \in {0, 1}
                /\ gone = 1 <=> Len(announcements) = 5
                /\ announcements'[n].category = CategoryAt(Largest(CrossedBy(last'.e)))
                /\ announcements'[n].streak = last'.e.streak
                /\ announcements'[n].playerId = last'.e.playerId
                /\ \A i \in 1..(n - 1) : announcements'[i] = announcements[i + gone]
                /\ "announcements" \in dirty'
       ELSE /\ announcements' = announcements
            /\ "announcements" \in dirty' => "announcements" \in dirty

\* C24: on a streak:changed with previousStreak < streak the Announcements
\* widget appends an item exactly when a threshold t of 2, 3, 5, 7, 10 has
\* previousStreak < t <= streak, with the category of the largest such t;
\* otherwise its buffer stays as it is and the event does not mark it dirty;
\* the buffer never holds more than 5 items, the oldest going first.
C24_HighestThreshold == [][C24_Step]_vars

\* a streak that went from 1 to 5 was announced as unstoppable in a buffer
\* that was full, so that the oldest item was evicted
C24_Witness ==
  /\ last.op = "hud:event"
  /\ last.e.type = "streak:changed"
  /\ last.e.previousStreak = 1 /\ last.e.streak = 5
  /\ commands = 6
  /\ Len(announcements) = 5
  /\ announcements[5].category = "unstoppable"
  /\ announcements[1].category = "legendary"

PhaseRank(phase) ==
  CASE phase = "idle" -> 0 [] phase = "countdown" -> 1 [] phase = "active" -> 2
    [] phase = "ended" -> 3

\* the match lifecycle events among the events of a sequence
MatchEvents(events) ==
  {events[i] : i \in {j \in 1..Len(events) :
     events[j].type \in {"match:created", "match:started", "match:ended"}}}

C25_Step ==
  /\ \A id \in DOMAIN matches \cap DOMAIN matches' :
       PhaseRank(matches'[id].phase) - PhaseRank(matches[id].phase) \in {0, 1}
  /\ \A id \in DOMAIN matches' \ DOMAIN matches : matches'[id].phase = "idle"
  /\ \A e \in MatchEvents(sent') : [type |-> e.type, id |-> e.id] \notin announced
  /\ currentMatch' \in DOMAIN matches' \cup {0}

\* C25: the phase of a match only moves along idle -> countdown -> active ->
\* ended, one phase at a time and never back, whatever calls of startCountdown,
\* startMatch and endMatch are made; match:created, match:started and
\* match:ended go out at most once per match; the current match, if there is
\* one, is a single known match.
C25_PhasesOnlyAdvance == [][C25_Step]_vars

\* the event that announces the entry into a phase
EventOfPhase(phase) ==
  CASE phase = "countdown" -> "match:created" [] phase = "active" -> "match:started"
    [] phase = "ended" -> "match:ended"

\* the matches that enter a new phase in the step
Entering ==
  {id \in DOMAIN matches \cap DOMAIN matches' : matches'[id].phase # matches[id].phase}

C26_Step ==
  \A id \in Entering :
    Cardinality({i \in 1..Len(emitted') :
                   /\ emitted'[i].type = EventOfPhase(matches'[id].phase)
                   /\ emitted'[i].id = id}) = 1

\* C26: each lifecycle transition of a match publishes its event on the event
\* bus exactly once (match:created on entering countdown, match:started on
\* entering active, match:ended on entering ended), where the journal's match
\* handlers and the HUD dispatcher listen.
C26_LifecycleOnBus == [][C26_Step]_vars

\* C30: EventJournal.fromJSON(j.toJSON()) is equivalent to j: same metadata,
\* same entries in the same order, the same next entry id and the same set of
\* unique players (playerId, victimId, assistIds of the entries), so that one
\* more event recorded in both leaves the same metadata (playerIds and
\* eventCount among it).
C30_RoundTrip ==
  copy # <<>> =>
    /\ copy[1].metadata = book.metadata
    /\ copy[1].entries = book.entries
    /\ copy[1].currentId = book.currentId
    /\ {copy[1].playerSet[i] : i \in 1..Len(copy[1].playerSet)} =
         {book.playerSet[i] : i \in 1..Len(book.playerSet)}


\* C27: every event of a type that is not excluded, delivered to the journal
\* system while it is recording, is appended once, to one journal (match:created
\* and match:ended included), and an event of an excluded type (tick:pre,
\* tick:post) is appended to none.
C27_Step ==
  last'.op = "journal:event" =>
    IF last'.e.type \in ExcludeEvents THEN appends' = <<>>
    ELSE isRecording => Len(appends') = 1
C27_RecordedOnce == [][C27_Step]_vars

\* C28: from the handling of match:created for a match M until the handling of
\* match:ended for M, the current journal is the journal created for M
\* (matchId = M) and the events recorded go to a journal of M, whatever the
\* order in which the pending saves complete.
C28_CurrentIsMatchJournal ==
  (openMatch # 0 /\ ~stopCalled) =>
    /\ currentJournal # 0
    /\ journals[currentJournal].metadata.matchId = openMatch
C28_Step ==
  (openMatch # 0 /\ openMatch' = openMatch /\ ~stopCalled') =>
    \A k \in DOMAIN appends' : journals'[appends'[k]].metadata.matchId = openMatch
C28_MatchJournal == []C28_CurrentIsMatchJournal /\ [][C28_Step]_vars


\* the entries of journal i that a written file of the journal holds
Saved(i) == IF i \in DOMAIN files THEN Range(files[i].entries) ELSE {}

\* C29: once stop() has been called no event is recorded into any journal and
\* no journal is started, whatever was pending (init, the handling of
\* match:ended, a rotation), and when stop() has returned every event recorded
\* before the call is in a written file.
C29_Step ==
  stopCalled => (journals' = journals /\ ~isRecording')
C29_AllSaved ==
  stopDone => \A i \in DOMAIN journals : Range(journals[i].entries) \subseteq Saved(i)
C29_StopIsFinal == [][C29_Step]_vars /\ []C29_AllSaved


\* the rotations waiting for their save
PendingRotations == {k \in BagToSet(tasks) : k.fn = "rotate"}

\* C31: when the event counter reaches maxJournalSize one rotation takes place:
\* events recorded while its save is being written start no further rotation,
\* and no journal holds more than maxJournalSize entries.
C31_OneRotation ==
  /\ \A i \in DOMAIN journals : Len(journals[i].entries) <= MaxJournalSize
  /\ \A k \in PendingRotations : tasks[k] = 1 /\ PendingRotations = {k}


\* C32: in every journal file written metadata.eventCount is the number of
\* entries of the file, also when events are appended while the save is in
\* progress, and the index entry of the journal carries the same eventCount.
C32_FrozenCount ==
  \A i \in DOMAIN files :
    /\ files[i].metadata.eventCount = Len(files[i].entries)
    /\ index[i].eventCount = files[i].metadata.eventCount


\* the journals a save of which is pending
Pending == {k.j : k \in BagToSet(tasks)}

\* C33: a failed save leaves the entries of the journal in memory as the target
\* of a later save, so that no recorded entry is lost for good because one save
\* failed: a journal with a failed save is still current, or a save of it is
\* pending, or its entries are in its file.
C33_NotLost ==
  \A i \in failed :
    \/ i = currentJournal
    \/ i \in Pending
    \/ Range(journals[i].entries) \subseteq Saved(i)


\* both components of the two directions differ by less than 0.001
Near(a, b) == 1000 * Abs(a.x - b.x) < DIR_UNIT /\ 1000 * Abs(a.y - b.y) < DIR_UNIT

\* a cmd:move of a live player with a direction within 0.001 of the last
\* direction accepted for it
RepeatedMove ==
  /\ last'.op = "cmd:move"
  /\ last'.id \in DOMAIN players
  /\ ~IsDeadPlayer(players[last'.id])
  /\ last'.id \in DOMAIN lastMoveDir
  /\ Near(lastMoveDir[last'.id], last'.dir)

\* C34: for a live player a cmd:move whose direction equals the last accepted
\* direction within 0.001 on both axes changes nothing: vel, the recorded
\* direction and the rest of the world are as the first move left them.
C34_Step ==
  RepeatedMove =>
    UNCHANGED <<players, lastMoveDir, projectiles, pickups, deadUntil, recentDamage,
                dashing, spawnAccum>>
C34_SameDirectionIsNoOp == [][C34_Step]_vars

\* a live player has sent a direction within 0.001 of, and different from, the
\* direction accepted before
C34_Witness ==
  /\ last.op = "cmd:move"
  /\ last.id \in DOMAIN players /\ ~IsDeadPlayer(players[last.id])
  /\ last.id \in DOMAIN lastMoveDir
  /\ lastMoveDir[last.id] # last.dir
  /\ Near(lastMoveDir[last.id], last.dir)
  /\ players[last.id].vel # Vec(0, 0)


\* C37: a cmd:move with a non-zero direction leaves a live player with a non-zero
\* velocity.  (A live player's velocity is zero after a join, after a move with
\* the zero direction, and after a respawn: the claim is about the last case,
\* the first two are what keeps the property for players that never died.)
C37_Step ==
  (/\ last'.op = "cmd:move"
   /\ last'.id \in DOMAIN players
   /\ ~IsDeadPlayer(players[last'.id])
   /\ last'.dir # [x |-> 0, y |-> 0])
    => players'[last'.id].vel # Vec(0, 0)
C37_MovesAfterRespawn == [][C37_Step]_vars

\* the square of the magnitude of a velocity, in tenths of a unit per second
Speed2(vel) ==
  (Abs(vel.x) \div 100) * (Abs(vel.x) \div 100)
    + (Abs(vel.y) \div 100) * (Abs(vel.y) \div 100)

\* C40: once buff:expired of kind haste has been emitted for a player (it has
\* no haste), the magnitude of its velocity vel is at most player.speed.
C40_HasteEnds ==
  \A id \in DOMAIN players :
    players[id].hasteUntil = 0 =>
      Speed2(players[id].vel) <= (10 * PLAYER_SPEED) * (10 * PLAYER_SPEED)


\* the players the last handler emitted an event of type ty for
EmittedFor(ty) == {emitted[i].playerId : i \in Emitted(ty)}

\* a tick emits dash:ended only for a player it held as dashing, and once
C35_Step ==
  \A i \in 1..Len(emitted') :
    emitted'[i].type = "dash:ended" =>
      /\ emitted'[i].playerId \in dashing
      /\ \A j \in 1..Len(emitted') :
           (emitted'[j].type = "dash:ended"
              /\ emitted'[j].playerId = emitted'[i].playerId) => j = i

\* C35: every dash:started for a player is followed by a dash:ended for it while
\* the player stays in the world and the clock ticks, however the ticks fall
\* relative to the 220 ms of the dash, and dash:ended is emitted only for a
\* player whose dash was under way, once.
C35_DashEnds ==
  /\ [][C35_Step]_vars
  /\ \A p \in 1..MaxPlayers :
       (p \in EmittedFor("dash:started")) ~> (p \in EmittedFor("dash:ended"))

\* once a dash is over for a player the movement system does not hold as
\* dashing, no later step emits dash:ended for it or adds it to the dashing set
\* unless the step casts a new dash: the end of a dash that no tick:pre saw is
\* never announced, however long the clock goes on ticking
C35_MissedStep ==
  \A p \in DOMAIN players \cap DOMAIN players' :
    (/\ p \notin dashing
     /\ ~IsDashing(players[p], now)
     /\ \A i \in 1..Len(emitted') :
          emitted'[i].type = "dash:started" => emitted'[i].playerId # p)
    => /\ p \notin dashing'
       /\ \A i \in 1..Len(emitted') :
            emitted'[i].type = "dash:ended" => emitted'[i].playerId # p

C35_MissedDashStaysMissed == [][C35_MissedStep]_vars

\* ---- C36
\* the number of projectile:spawned events of the step whose owner is p
SpawnedBy(p) ==
  Cardinality({k \in 1..Len(emitted') :
                 emitted'[k].type = "projectile:spawned" /\ emitted'[k].owner = p})

\* the number of bullets and pellets of p that hit a player in the step
HitsBy(p) ==
  Cardinality({k \in 1..Len(emitted') :
                 /\ emitted'[k].type = "damage:applied"
                 /\ emitted'[k].source = p
                 /\ emitted'[k].weapon \in {"bullet", "pellet"}})

C36_Step ==
  \A p \in DOMAIN players \cap DOMAIN players' :
    /\ players'[p].stats.shotsFired = players[p].stats.shotsFired + SpawnedBy(p)
    /\ players'[p].stats.shotsHit = players[p].stats.shotsHit + HitsBy(p)
    /\ players'[p].stats.shotsHit <= players'[p].stats.shotsFired

\* C36: in a step without a stats reset, a player's shotsFired grows by the
\* number of projectile:spawned events it owns and its shotsHit by the number
\* of its bullets and pellets that hit a player, and shotsHit <= shotsFired.
C36_ShotsCounted == [][C36_Step]_vars

\* the parts of C36 that do not depend on what a hit adds to shotsFired
C36_HitsStep ==
  \A p \in DOMAIN players \cap DOMAIN players' :
    /\ players'[p].stats.shotsFired >= players[p].stats.shotsFired + SpawnedBy(p)
    /\ players'[p].stats.shotsFired
         = players[p].stats.shotsFired + SpawnedBy(p) + HitsBy(p)
    /\ players'[p].stats.shotsHit = players[p].stats.shotsHit + HitsBy(p)
    /\ players'[p].stats.shotsHit <= players'[p].stats.shotsFired

C36_HitsAlsoFired == [][C36_HitsStep]_vars

\* ---- C38
\* the connections that are open
OpenConns == Conns \ closed

\* C38: every player in the world is the player bound to an open connection,
\* so a closed connection leaves no player behind and there are at most as
\* many players as open connections.
C38_OnePlayerPerConnection ==
  /\ \A id \in DOMAIN players : \E c \in OpenConns : connToPlayer[c] = id
  /\ Cardinality(DOMAIN players) <= Cardinality(OpenConns)

\* the part about the player a connection is bound to when it closes: that
\* player leaves the world
C38_Step ==
  (last'.op = "close" /\ last'.id # 0) => last'.id \notin DOMAIN players'

C38_BoundPlayerLeaves == [][C38_Step]_vars

\* ---- C39
\* the journals that were replaced by a newer one: startNewJournal starts a
\* save of the journal it replaces, and nothing is recorded into it afterwards,
\* so the last save started for it saw all its entries
Replaced == {i \in DOMAIN journals : i # currentJournal}

\* C39: when every save of a replaced journal has completed, its file holds
\* every entry that was in the journal when the last of the saves started,
\* whatever the order in which overlapping saves complete.
C39_NewestSnapshotWins ==
  \A i \in Replaced :
    (i \notin Pending /\ i \in DOMAIN files) => Range(journals[i].entries) \subseteq Saved(i)

====
